---- MODULE Spec2Model ----
(***************************************************************************)
(* A model of the io-da/query bus: the ordered handler chains, the two     *)
(* result carriers, the error routing and the iterator worker pool with    *)
(* its initialization / shutdown state machine.                            *)
(***************************************************************************)
EXTENDS Integers, Sequences, FiniteSets, TLC

\* ------------------------------------------------------------------ bounds

\* Longest handler chain registered for the synchronous Query.
MaxHandlers == 2
\* Largest number of registered error handlers.
MaxErrorHandlers == 2
\* Number of Query / IteratorQuery calls issued in one behaviour.
MaxCalls == 2
\* Largest iterator worker pool (the host's GOMAXPROCS).
MaxPoolSize == 2
\* Number of InitializeIteratorHandlers calls that win the initialized flag, and
\* number of Shutdown calls, in one behaviour.
MaxInits == 1
MaxShutdowns == 1
\* Number of threads that call Shutdown where the calls may overlap.
MaxShutdownThreads == 2
\* Longest chain registered on the bus whose whole life cycle is explored.
MaxBusHandlers == 1
\* Number of MemoryCacheAdapter instances, the last second the clock reaches,
\* and the number of Query calls issued against the cache.
\* Longest iterator chain and largest proxy channel of the iteration runs.
MaxIteratorHandlers == 2
MaxResultBuffer == 1
MaxAdapters == 2
MaxTime == 3
\* Largest capacity given to the inbound queue where the queue is to fill up.
MaxQueueBuffer == 2
\* Number of times the bus is initialized where it is initialized again after
\* a Shutdown.
MaxLives == 2
\* Number of calls made directly on an adapter, or on a Result, in one
\* behaviour.
MaxOps == 3
\* The longest slice handed to Result.Set, and its largest spare capacity.
MaxSetLen == 2
MaxSpare == 1

\* ------------------------------------------------------------------ values

\* The nil query and the non-nil queries issued by the callers.
NilQuery == "nil"
Queries == {"qry"}

\* The queries that implement Cacheable, with their CacheKey() and their
\* CacheDuration() in seconds; the last one declares no duration.
Cacheable == {"cq1", "cq2", "cq0"}
CacheKey(qry) ==
    CASE qry = "cq1" -> "k1" [] qry = "cq2" -> "k2" [] qry = "cq0" -> "k0"
      [] qry = "cq1b" -> "k1"
CacheDuration(qry) ==
    CASE qry = "cq1" -> 1 [] qry = "cq2" -> 2 [] qry = "cq0" -> 0
      [] qry = "cq1b" -> 2
\* The queries handed to an adapter directly: "cq1b" is another query, with an
\* Id of its own, that has the cache key of "cq1".
SharedKey == {"cq1", "cq1b", "cq2"}
CacheKeys == {CacheKey(qry) : qry \in Cacheable}
\* The nil cache key of a Result made by newResult, and the zero time.Time.
NoKey == "nil"
ZeroTime == 0

\* The errors of errors.go; NoError is Go's nil error, HandlerError the opaque
\* error a handler returns ("query failed" in the tests).
NoError == "nil"
InvalidQueryError == "InvalidQuery"
BusNotInitializedError == "BusNotInitialized"
BusIsShuttingDownError == "BusIsShuttingDown"
NewErrorNoQueryHandlersFound == "NoQueryHandlersFound"
NewErrorQueryTimedOut == "QueryTimedOut"
HandlerError == "HandlerError"

\* What a handler does with the result it is given, then what it returns.
\*   pass    : does not recognise the query, returns nil
\*   add     : res.Add(v), returns nil
\*   handled : res.Handled(), returns nil
\*   done    : res.Done(), returns nil
\*   addDone : res.Add(v); res.Done(), returns nil
\*   err     : returns an error
\*   addErr  : res.Add(v), then returns an error
HandlerKinds == {"pass", "add", "handled", "done", "addDone", "err", "addErr"}

RECURSIVE SeqsUpTo(_, _)
SeqsUpTo(S, n) ==
    IF n = 0 THEN {<< >>}
    ELSE LET shorter == SeqsUpTo(S, n - 1)
         IN  shorter \cup {Append(s, x) : s \in {t \in shorter : Len(t) = n - 1}, x \in S}

\* ------------------------------------------------------------- resultCore

newResultCore == [stopPropagation |-> 0, handled |-> 0, fresh |-> 1]

Handled(res) == [res EXCEPT !.handled = 1]

\* A Done that stops the propagation and leaves the handled flag alone.
DoneWithoutHandled(res) == [res EXCEPT !.stopPropagation = 1]

DoneKeepsPropagating(res) == Handled(res)

Done(res) == [Handled(res) EXCEPT !.stopPropagation = 1]

propagationStopped(res) == res.stopPropagation = 1

IsFresh(res) == res.fresh = 1

IsCached(res) == res.fresh = 0

\* atomic.CompareAndSwapUint32(res.fresh, 1, 0)
loadedFromCacheKeepsFresh(res) == res

loadedFromCache(res) == [res EXCEPT !.fresh = 0]

\* ------------------------------------------------------------------ Result

\* data is the slice's contents, cap its capacity.
newResult == [stopPropagation |-> newResultCore.stopPropagation,
              handled |-> newResultCore.handled,
              fresh |-> newResultCore.fresh,
              data |-> << >>, cap |-> 1,
              cacheKey |-> NoKey, cachedAt |-> ZeroTime, expiresAt |-> ZeroTime]

newCacheableResult(qry) == [newResult EXCEPT !.cacheKey = CacheKey(qry)]

CachedAt(res) == res.cachedAt

ExpiresAt(res) == res.expiresAt

expires(res, at) == [res EXCEPT !.expiresAt = at]

\* res.cachedAt left as it was.
cachedUnstamped(res, at) == res

cached(res, at) == [res EXCEPT !.cachedAt = at]

\* The larger slice is made but the old values are not copied into it: its
\* first len elements are zero values.
increaseCapacityWithoutCopy(res) ==
    [res EXCEPT !.data = [j \in 1 .. Len(res.data) |-> 0],
                !.cap = (res.cap * 11 + 9) \div 10]

\* int(math.Ceil(float64(cap) * 1.1)), exact for the capacities reached here;
\* the values are copied into the new slice.
increaseCapacity(res) == [res EXCEPT !.cap = (res.cap * 11 + 9) \div 10]

\* append doubles a full slice (a nil or zero-capacity one gets capacity 1).
GoAppend(res, v) ==
    [res EXCEPT !.data = Append(res.data, v),
                !.cap = IF Len(res.data) < res.cap THEN res.cap
                        ELSE IF res.cap = 0 THEN 1 ELSE 2 * res.cap]

Add(res, v) ==
    GoAppend(IF Len(res.data) = res.cap THEN increaseCapacity(res) ELSE res, v)

\* A Set that appends the values to the ones the result holds.
SetAppends(res, data) ==
    [res EXCEPT !.data = res.data \o data, !.cap = Len(res.data) + Len(data)]

Set(res, data) == [res EXCEPT !.data = data, !.cap = Len(data)]

First(res) == IF Len(res.data) <= 0 THEN "nil" ELSE res.data[1]

All(res) == res.data

isHandledIgnoringData(res) == res.handled = 1

isHandled(res) == Len(res.data) > 0 \/ res.handled = 1


\* ------------------------------------------------------------ the handlers

\* Handler.Handle(qry, res) of a handler of the given kind registered at
\* position pos: each handler adds its own position, so the data of a result
\* tells who contributed and in which order.
Handle(kind, res, pos) ==
    CASE kind = "pass"    -> [res |-> res, err |-> NoError]
      [] kind = "add"     -> [res |-> Add(res, pos), err |-> NoError]
      [] kind = "handled" -> [res |-> Handled(res), err |-> NoError]
      [] kind = "done"    -> [res |-> Done(res), err |-> NoError]
      [] kind = "addDone" -> [res |-> Done(Add(res, pos)), err |-> NoError]
      [] kind = "err"     -> [res |-> res, err |-> HandlerError]
      [] kind = "addErr"  -> [res |-> Add(res, pos), err |-> HandlerError]

\* IteratorHandler.Handle(qry, res) of the iterator handlers of the tests:
\* the values it yields, what it does to the result afterwards, what it returns.
\*   pass      : does not recognise the query, returns nil
\*   yield     : res.Yield(v), returns nil
\*   yield2    : res.Yield(v); res.Yield(v'), returns nil
\*   yieldDone : res.Yield(v); res.Done(), returns nil
\*   done      : res.Done(), returns nil
\*   err       : returns an error
IteratorHandlerKinds == {"pass", "yield", "yield2", "yieldDone", "done", "err"}

Yields(kind) ==
    CASE kind \in {"yield", "yieldDone"} -> 1
      [] kind = "yield2" -> 2
      [] OTHER -> 0

\* The k-th value (counting down) yielded by the handler at position pos.
YieldValue(pos, k) == 10 * pos + k

\* The part of the handler after its last Yield.
IteratorHandle(kind, res) ==
    CASE kind \in {"yieldDone", "done"} -> [res |-> Done(res), err |-> NoError]
      [] kind = "err" -> [res |-> res, err |-> HandlerError]
      [] OTHER -> [res |-> res, err |-> NoError]

\* ---------------------------------------------------------------- the state

VARIABLES
    handlers,               \* bus.handlers: the chain of the synchronous Query
    errorHandlers,          \* bus.errorHandlers: ids of the registered sinks
    iteratorHandlers,       \* bus.iteratorHandlers: the chain of IteratorQuery
    iteratorWorkerPoolSize, \* bus.iteratorWorkerPoolSize
    iteratorQueueBuffer,    \* bus.iteratorQueueBuffer
    iteratorResultBuffer,   \* bus.iteratorResultBuffer
    initialized,            \* *bus.initialized, 0 or 1
    shuttingDown,           \* *bus.shuttingDown, 0 or 1
    ongoingQueries,         \* *bus.ongoingQueries
    iteratorWorkers,        \* *bus.iteratorWorkers, the live-worker count
    iteratorQueryQueue,     \* bus.iteratorQueryQueue: index into queues, 0 is nil
    queues,                 \* every inbound channel made so far
    calls,                  \* the Query / IteratorQuery calls made so far
    workers,                \* the worker goroutines
    initializer,            \* the thread inside InitializeIteratorHandlers
    shutdowns,              \* the threads that called Shutdown
    adapters,               \* every MemoryCacheAdapter made so far
    cacheAdapters,          \* bus.cacheAdapters: the adapters the bus uses, in order
    now                     \* time.Now(), in seconds

config == <<iteratorWorkerPoolSize, iteratorQueueBuffer, iteratorResultBuffer>>
chains == <<handlers, errorHandlers, iteratorHandlers>>
flags == <<initialized, shuttingDown, ongoingQueries, iteratorWorkers>>
vars == <<handlers, errorHandlers, iteratorHandlers, iteratorWorkerPoolSize,
          iteratorQueueBuffer, iteratorResultBuffer, initialized, shuttingDown,
          ongoingQueries, iteratorWorkers, iteratorQueryQueue, queues, calls,
          workers, initializer, shutdowns, adapters, cacheAdapters, now>>
cache == <<adapters, cacheAdapters, now>>

\* NewBus's default capacity of the inbound queue.
DefaultQueueBuffer == 100

\* The nil *Result / *IteratorResult: a record with none of their fields.
NoResult == [isNil |-> TRUE]
\* The nil *pendingQuery pushed by shutdown.
NilItem == 0

WorkerSlots == 1 .. (MaxPoolSize * MaxInits)
ShutdownCallers == 1 .. MaxShutdowns
ShutdownThreads == 1 .. MaxShutdownThreads

isInitialized == initialized = 1
isShuttingDown == shuttingDown = 1

\* if qry == nil { return nil, InvalidQueryError }
isValidAcceptsNil(qry) == TRUE

isValid(qry) == qry # NilQuery

\* ------------------------------------------------------- MemoryCacheAdapter

\* time.Hour, in seconds.
Hour == 3600
\* The nil *time.Timer of an adapter whose cleaner has not slept yet.
NoTimer == 0

AdapterIds == 1 .. MaxAdapters

\* cachedResults maps a cache key to the stored *Result, NoResult when the key
\* is absent; cleanerSignal is the content of the one-slot wake channel; timer
\* is the second at which sleepTimer fires; pc is the position of the cleaner
\* goroutine: at the head of its loop, in its select, or returned.
NewMemoryCacheAdapter ==
    [cachedResults |-> [key \in CacheKeys |-> NoResult],
     cleanerSignal |-> 0, shuttingDown |-> 0,
     sleepUntil |-> ZeroTime, timer |-> NoTimer, pc |-> "loop"]

\* A clean whose signal is dropped even though the channel has room.
cleanDropsSignal(ad) == ad

\* select { case ad.cleanerSignal <- true: default: }
clean(ad) == [ad EXCEPT !.cleanerSignal = 1]

\* An updateSleepUntil that keeps the latest expiry it is given.
updateSleepUntilLatest(ad, expiresAt) ==
    IF ad.sleepUntil = ZeroTime \/ expiresAt > ad.sleepUntil
    THEN [ad EXCEPT !.sleepUntil = expiresAt]
    ELSE ad

updateSleepUntil(ad, expiresAt) ==
    IF ad.sleepUntil = ZeroTime \/ expiresAt < ad.sleepUntil
    THEN [ad EXCEPT !.sleepUntil = expiresAt]
    ELSE ad

Stored(ad) == {key \in CacheKeys : ad.cachedResults[key] # NoResult}

\* The cleaner always sleeps the idle hour.
determineSleepDurationIdle(ad, at) == Hour

determineSleepDuration(ad, at) ==
    IF ad.sleepUntil = ZeroTime \/ Stored(ad) = {} THEN Hour ELSE ad.sleepUntil - at

updateSleepTimer(ad, at, duration) == [ad EXCEPT !.timer = at + duration]

\* Set that inserts under a free key and leaves an entry already stored under
\* the key in place.
MemoryCacheAdapterSetIfAbsent(ad, qry, res, at) ==
    clean(updateSleepUntil(
              IF ad.cachedResults[CacheKey(qry)] = NoResult
              THEN [ad EXCEPT !.cachedResults[CacheKey(qry)] = res] ELSE ad,
              at + CacheDuration(qry)))

MemoryCacheAdapterSet(ad, qry, res, at) ==
    clean(updateSleepUntil([ad EXCEPT !.cachedResults[CacheKey(qry)] = res],
                           at + CacheDuration(qry)))

\* Get that looks at the expiry of the entry and reports an expired one absent.
MemoryCacheAdapterGetUnexpired(ad, qry) ==
    LET res == ad.cachedResults[CacheKey(qry)]
    IN  IF res # NoResult /\ res.cachedAt # ZeroTime /\ now > res.expiresAt
        THEN NoResult ELSE res

MemoryCacheAdapterGet(ad, qry) == ad.cachedResults[CacheKey(qry)]

\* Expire that empties the whole store.
MemoryCacheAdapterExpireAll(ad, qry) ==
    [ad EXCEPT !.cachedResults = [key \in CacheKeys |-> NoResult]]

MemoryCacheAdapterExpire(ad, qry) ==
    [ad EXCEPT !.cachedResults[CacheKey(qry)] = NoResult]

\* Shutdown that sets the flag and sends no wake signal.
MemoryCacheAdapterShutdownNoWake(ad) == [ad EXCEPT !.shuttingDown = 1]

\* Shutdown that wakes the cleaner and leaves the flag clear.
MemoryCacheAdapterShutdownNoFlag(ad) == clean(ad)

MemoryCacheAdapterShutdown(ad) == clean([ad EXCEPT !.shuttingDown = 1])

\* The body of the cleaner's loop, run at second `at` under the lock: the
\* stamped entries that expired before `at` are deleted, sleepUntil becomes the
\* earliest expiry left and the timer is set to it.
Expired(res, at) == CachedAt(res) # ZeroTime /\ at > ExpiresAt(res)

\* A cleaner whose pass steps over the expired entries and leaves them stored.
RECURSIVE sweepKeepsExpired(_, _, _)
sweepKeepsExpired(ad, keys, at) ==
    IF keys = {} THEN ad
    ELSE LET key == CHOOSE k \in keys : TRUE
             res == ad.cachedResults[key]
         IN  IF Expired(res, at)
             THEN sweepKeepsExpired(ad, keys \ {key}, at)
             ELSE sweepKeepsExpired(updateSleepUntil(ad, ExpiresAt(res)), keys \ {key}, at)

RECURSIVE sweep(_, _, _)
sweep(ad, keys, at) ==
    IF keys = {} THEN ad
    ELSE LET key == CHOOSE k \in keys : TRUE
             res == ad.cachedResults[key]
         IN  IF Expired(res, at)
             THEN sweep([ad EXCEPT !.cachedResults[key] = NoResult], keys \ {key}, at)
             ELSE sweep(updateSleepUntil(ad, ExpiresAt(res)), keys \ {key}, at)

\* A pass that deletes every entry whose expiry is not after the time of the
\* pass, stamped or not.
RECURSIVE sweepInOrderAtExpiry(_, _, _)
sweepInOrderAtExpiry(ad, keys, at) ==
    IF keys = << >> THEN ad
    ELSE LET key == Head(keys)
             res == ad.cachedResults[key]
         IN  IF at >= ExpiresAt(res)
             THEN sweepInOrderAtExpiry([ad EXCEPT !.cachedResults[key] = NoResult],
                                       Tail(keys), at)
             ELSE sweepInOrderAtExpiry(updateSleepUntil(ad, ExpiresAt(res)), Tail(keys), at)

\* The same pass with the order in which range walks the map left open: keys
\* is the sequence of the stored keys in the order of the walk.
RECURSIVE sweepInOrder(_, _, _)
sweepInOrder(ad, keys, at) ==
    IF keys = << >> THEN ad
    ELSE LET key == Head(keys)
             res == ad.cachedResults[key]
         IN  IF Expired(res, at)
             THEN sweepInOrder([ad EXCEPT !.cachedResults[key] = NoResult], Tail(keys), at)
             ELSE sweepInOrder(updateSleepUntil(ad, ExpiresAt(res)), Tail(keys), at)

\* The walks of the map: every order of the stored keys.
Walks(ad) ==
    {order \in [1 .. Cardinality(Stored(ad)) -> Stored(ad)] :
        \A i, j \in DOMAIN order : i # j => order[i] # order[j]}

cleanerPassInOrder(ad, order, at) ==
    LET swept == sweepInOrder([ad EXCEPT !.sleepUntil = ZeroTime], order, at)
    IN  updateSleepTimer(swept, at, determineSleepDuration(swept, at))

cleanerPass(ad, at) ==
    LET swept == sweep([ad EXCEPT !.sleepUntil = ZeroTime], Stored(ad), at)
    IN  updateSleepTimer(swept, at, determineSleepDuration(swept, at))

\* ------------------------------------------------------------ IteratorResult

\* proxy is the content of the proxy channel, buffer its capacity, closed the
\* number of close() calls made on it, listening the single-slot listener gate.
newIteratorResult(buf) ==
    [stopPropagation |-> newResultCore.stopPropagation,
     handled |-> newResultCore.handled,
     fresh |-> newResultCore.fresh,
     proxy |-> << >>, buffer |-> buf, closed |-> 0, listening |-> 0]

\* resultCore.isHandled, the one an IteratorResult has.
coreIsHandled(res) == res.handled = 1

\* ------------------------------------------------------------- dispatch

\* The loop over the error handlers stops after the first one.
errorKeepsFirstHandler(errHdls, err) ==
    [i \in 1 .. (IF Len(errHdls) > 0 THEN 1 ELSE 0) |-> <<errHdls[i], err>>]

\* The error is returned but no error handler is told.
errorNotifiesNobody(errHdls, err) == << >>

\* Bus.error: the error goes to every registered error handler, in order.
error(errHdls, err) == [i \in 1 .. Len(errHdls) |-> <<errHdls[i], err>>]

\* Bus.query: the walk of the chain from handler i on. invoked lists the
\* positions of the handlers called so far, notified the deliveries to the
\* error handlers.
RECURSIVE query(_, _, _, _, _)
query(chain, errHdls, i, res, invoked) ==
    IF i > Len(chain)
    THEN IF isHandled(res)
         THEN [res |-> res, invoked |-> invoked, err |-> NoError, notified |-> << >>]
         ELSE [res |-> res, invoked |-> invoked, err |-> NewErrorNoQueryHandlersFound,
               notified |-> error(errHdls, NewErrorNoQueryHandlersFound)]
    ELSE LET out == Handle(chain[i], res, i)
             inv == Append(invoked, i)
         IN  IF out.err # NoError
             THEN [res |-> out.res, invoked |-> inv, err |-> out.err,
                   notified |-> error(errHdls, out.err)]
             ELSE IF propagationStopped(out.res)
             THEN [res |-> out.res, invoked |-> inv, err |-> NoError, notified |-> << >>]
             ELSE query(chain, errHdls, i + 1, out.res, inv)

\* ------------------------------------------------------------- call records

\* A call of Query, made and returned in one step on the caller's thread.
\* chain and errHdls are the lists the call ran against; final is the Result
\* as the chain left it, res what the caller got, hit the adapter that served
\* the call from its store, 0 when none did.
SyncCall(qry, chain, errHdls, out, hit) ==
    [kind |-> "Query", qry |-> qry, pc |-> "returned", hit |-> hit,
     chain |-> chain, errHdls |-> errHdls,
     err |-> out.err,
     res |-> IF out.err = NoError THEN out.res ELSE NoResult,
     final |-> out.res,
     invoked |-> out.invoked, notified |-> out.notified,
     listener |-> "none", received |-> << >>, outcome |-> "none"]

\* A call of IteratorQuery. pc is the caller's position, err "none" until the
\* call returns; listener is the consumer's position, received what it drained;
\* outcome is what the worker made of the item.
IteratorCall(qry, pc, err) ==
    [kind |-> "IteratorQuery", qry |-> qry, pc |-> pc, hit |-> 0,
     chain |-> << >>, errHdls |-> << >>,
     err |-> err, res |-> NoResult, final |-> NoResult,
     invoked |-> << >>, notified |-> << >>,
     listener |-> "none", received |-> << >>, outcome |-> "none"]

CallIds == 1 .. Len(calls)

\* An idle worker slot, the thread of InitializeIteratorHandlers at rest.
NoWorker == [pc |-> "off", queue |-> 0, item |-> NilItem, hdl |-> 0, yields |-> 0]
NoInitializer == [pc |-> "idle", hdls |-> << >>, i |-> 0, done |-> 0]

\* ------------------------------------------------------------- registration

\* Bus.Handlers(hdls...). The chain is registered once, before it is used.
Handlers(hdls) ==
    /\ handlers = << >>
    /\ hdls # << >>
    /\ handlers' = hdls
    /\ UNCHANGED <<cache, errorHandlers, iteratorHandlers, config, flags, iteratorQueryQueue,
                   queues, calls, workers, initializer, shutdowns>>

\* Bus.ErrorHandlers(hdls...). The list is registered once.
ErrorHandlers(hdls) ==
    /\ errorHandlers = << >>
    /\ hdls # << >>
    /\ errorHandlers' = IF ~isInitialized THEN hdls ELSE errorHandlers
    /\ UNCHANGED <<cache, handlers, iteratorHandlers, config, flags, iteratorQueryQueue,
                   queues, calls, workers, initializer, shutdowns>>

\* Bus.IteratorWorkerPoolSize(n)
IteratorWorkerPoolSize(n) ==
    /\ iteratorWorkerPoolSize' = IF ~isInitialized THEN n ELSE iteratorWorkerPoolSize
    /\ UNCHANGED <<cache, chains, iteratorQueueBuffer, iteratorResultBuffer, flags,
                   iteratorQueryQueue, queues, calls, workers, initializer, shutdowns>>

\* Bus.IteratorQueueBuffer(n)
IteratorQueueBuffer(n) ==
    /\ iteratorQueueBuffer' = IF ~isInitialized THEN n ELSE iteratorQueueBuffer
    /\ UNCHANGED <<cache, chains, iteratorWorkerPoolSize, iteratorResultBuffer, flags,
                   iteratorQueryQueue, queues, calls, workers, initializer, shutdowns>>

\* Bus.IteratorResultBuffer(n)
IteratorResultBuffer(n) ==
    /\ iteratorResultBuffer' = n
    /\ UNCHANGED <<cache, chains, iteratorWorkerPoolSize, iteratorQueueBuffer, flags,
                   iteratorQueryQueue, queues, calls, workers, initializer, shutdowns>>

\* ------------------------------------------------------------------- Query

\* Query as a bus that served it through the worker pool would start it:
\* refused until the pool is initialized.
\* The position in bus.cacheAdapters of the first adapter, from position i
\* on, whose Get finds the query; 0 when none does.
RECURSIVE firstHit(_, _)
firstHit(qry, i) ==
    IF i > Len(cacheAdapters) THEN 0
    ELSE IF MemoryCacheAdapterGet(adapters[cacheAdapters[i]], qry) # NoResult THEN i
    ELSE firstHit(qry, i + 1)

Configured == {cacheAdapters[i] : i \in 1 .. Len(cacheAdapters)}

\* The stores after Set(qry, res, at) on every adapter of the bus.
writeThrough(qry, res, at) ==
    [ad \in AdapterIds |->
        IF ad \in Configured THEN MemoryCacheAdapterSet(adapters[ad], qry, res, at)
        ELSE adapters[ad]]

QueryRequiresInitialization(qry) ==
    /\ Len(calls) < MaxCalls
    /\ LET cacheable == isValid(qry) /\ qry \in Cacheable
           hit == IF cacheable /\ isInitialized THEN firstHit(qry, 1) ELSE 0
       IN  IF hit # 0
           THEN LET ad == cacheAdapters[hit]
                    res == loadedFromCache(MemoryCacheAdapterGet(adapters[ad], qry))
                    out == [res |-> res, invoked |-> << >>, err |-> NoError,
                            notified |-> << >>]
                IN  /\ calls' = Append(calls, SyncCall(qry, handlers, errorHandlers, out, ad))
                    /\ adapters' = [adapters EXCEPT ![ad].cachedResults[CacheKey(qry)] = res]
           ELSE LET none == [res |-> NoResult, invoked |-> << >>, err |-> NoError,
                             notified |-> << >>]
                    out == IF ~isValid(qry) THEN [none EXCEPT !.err = InvalidQueryError]
                           ELSE IF ~isInitialized
                           THEN [none EXCEPT !.err = BusNotInitializedError]
                           ELSE query(handlers, errorHandlers, 1,
                                      IF cacheable THEN newCacheableResult(qry)
                                      ELSE newResult, << >>)
                    write == cacheable /\ out.err = NoError /\ CacheDuration(qry) > 0
                    res == IF write
                           THEN expires(cached(out.res, now), now + CacheDuration(qry))
                           ELSE out.res
                IN  /\ calls' = Append(calls, SyncCall(qry, handlers, errorHandlers,
                                                       [out EXCEPT !.res = res], 0))
                    /\ adapters' = IF write THEN writeThrough(qry, res, now) ELSE adapters
    /\ UNCHANGED <<cacheAdapters, now, chains, config, flags, iteratorQueryQueue, queues,
                   workers, initializer, shutdowns>>

\* Bus.Query(qry), on the caller's thread.
Query(qry) ==
    /\ Len(calls) < MaxCalls
    /\ LET cacheable == isValid(qry) /\ qry \in Cacheable
           hit == IF cacheable THEN firstHit(qry, 1) ELSE 0
       IN  IF hit # 0
           THEN LET ad == cacheAdapters[hit]
                    res == loadedFromCache(MemoryCacheAdapterGet(adapters[ad], qry))
                    out == [res |-> res, invoked |-> << >>, err |-> NoError,
                            notified |-> << >>]
                IN  /\ calls' = Append(calls, SyncCall(qry, handlers, errorHandlers, out, ad))
                    /\ adapters' = [adapters EXCEPT ![ad].cachedResults[CacheKey(qry)] = res]
           ELSE LET none == [res |-> NoResult, invoked |-> << >>, err |-> NoError,
                             notified |-> << >>]
                    out == IF ~isValid(qry) THEN [none EXCEPT !.err = InvalidQueryError]
                           ELSE query(handlers, errorHandlers, 1,
                                      IF cacheable THEN newCacheableResult(qry)
                                      ELSE newResult, << >>)
                    write == cacheable /\ out.err = NoError /\ CacheDuration(qry) > 0
                    res == IF write
                           THEN expires(cached(out.res, now), now + CacheDuration(qry))
                           ELSE out.res
                IN  /\ calls' = Append(calls, SyncCall(qry, handlers, errorHandlers,
                                                       [out EXCEPT !.res = res], 0))
                    /\ adapters' = IF write THEN writeThrough(qry, res, now) ELSE adapters
    /\ UNCHANGED <<cacheAdapters, now, chains, config, flags, iteratorQueryQueue, queues,
                   workers, initializer, shutdowns>>

\* ---------------------------------------------- InitializeIteratorHandlers

\* Bus.initialize wins the flag: the caller goes on to set the bus up.
\* A caller that finds the flag set returns at once.
InitializeIteratorHandlers(hdls) ==
    /\ IF initialized = 0
       THEN /\ initializer.pc = "idle"
            /\ initializer.done < MaxInits
            /\ initialized' = 1
            /\ initializer' = [pc |-> "setup", hdls |-> hdls, i |-> 0,
                               done |-> initializer.done + 1]
       ELSE UNCHANGED <<initialized, initializer>>
    /\ UNCHANGED <<cache, chains, config, shuttingDown, ongoingQueries, iteratorWorkers,
                   iteratorQueryQueue, queues, calls, workers, shutdowns>>

\* An initialization that sets the bus up whether the flag was won or not.
ReinitializeAlways(hdls) ==
    /\ initializer.pc = "idle"
    /\ initializer.done < MaxLives
    /\ initialized' = 1
    /\ initializer' = [pc |-> "setup", hdls |-> hdls, i |-> 0,
                       done |-> initializer.done + 1]
    /\ UNCHANGED <<cache, chains, config, shuttingDown, ongoingQueries, iteratorWorkers,
                   iteratorQueryQueue, queues, calls, workers, shutdowns>>

\* A bus that is initialized again after a Shutdown that completed: the call
\* is the same, and the flag is won once in each of the lives of the bus.
Reinitialize(hdls) ==
    /\ IF initialized = 0
       THEN /\ initializer.pc = "idle"
            /\ initializer.done < MaxLives
            /\ initialized' = 1
            /\ initializer' = [pc |-> "setup", hdls |-> hdls, i |-> 0,
                               done |-> initializer.done + 1]
       ELSE UNCHANGED <<initialized, initializer>>
    /\ UNCHANGED <<cache, chains, config, shuttingDown, ongoingQueries, iteratorWorkers,
                   iteratorQueryQueue, queues, calls, workers, shutdowns>>

\* bus.iteratorHandlers = hdls; bus.iteratorQueryQueue = make(chan, buffer)
InitializeSetup ==
    /\ initializer.pc = "setup"
    /\ iteratorHandlers' = initializer.hdls
    /\ queues' = Append(queues, [buf |-> << >>, cap |-> iteratorQueueBuffer])
    /\ iteratorQueryQueue' = Len(queues) + 1
    /\ initializer' = [initializer EXCEPT !.pc = "spawn"]
    /\ UNCHANGED <<cache, handlers, errorHandlers, config, flags, calls, workers, shutdowns>>

FreeSlot == CHOOSE w \in WorkerSlots :
                /\ workers[w].pc = "off"
                /\ \A v \in WorkerSlots : workers[v].pc = "off" => w <= v

\* One round of the loop: bus.workerUp(); go bus.worker(queue, closed)
InitializeSpawn ==
    /\ initializer.pc = "spawn"
    /\ initializer.i < iteratorWorkerPoolSize
    /\ \E w \in WorkerSlots : workers[w].pc = "off"
    /\ iteratorWorkers' = iteratorWorkers + 1
    /\ workers' = [workers EXCEPT ![FreeSlot] =
                       [NoWorker EXCEPT !.pc = "recv", !.queue = iteratorQueryQueue]]
    /\ initializer' = [initializer EXCEPT !.i = @ + 1]
    /\ UNCHANGED <<cache, chains, config, initialized, shuttingDown, ongoingQueries,
                   iteratorQueryQueue, queues, calls, shutdowns>>

\* The initialization returns with the shutting-down flag as it found it.
InitializeClearLeavesFlag ==
    /\ initializer.pc = "spawn"
    /\ initializer.i >= iteratorWorkerPoolSize
    /\ initializer' = [initializer EXCEPT !.pc = "idle", !.hdls = << >>, !.i = 0]
    /\ UNCHANGED <<cache, chains, config, flags, iteratorQueryQueue, queues, calls, workers,
                   shutdowns>>

\* The loop is over: atomic.CompareAndSwapUint32(bus.shuttingDown, 1, 0)
InitializeClear ==
    /\ initializer.pc = "spawn"
    /\ initializer.i >= iteratorWorkerPoolSize
    /\ shuttingDown' = 0
    /\ initializer' = [initializer EXCEPT !.pc = "idle", !.hdls = << >>, !.i = 0]
    /\ UNCHANGED <<cache, chains, config, initialized, ongoingQueries, iteratorWorkers,
                   iteratorQueryQueue, queues, calls, workers, shutdowns>>

\* ------------------------------------------------------------ IteratorQuery

\* IteratorQuery that goes on to its shutting-down check without counting the
\* query as ongoing.
IteratorQueryUncounted(qry) ==
    /\ Len(calls) < MaxCalls
    /\ IF ~isValid(qry)
       THEN calls' = Append(calls, IteratorCall(qry, "returned", InvalidQueryError))
       ELSE IF ~isInitialized
       THEN calls' = Append(calls, IteratorCall(qry, "returned", BusNotInitializedError))
       ELSE calls' = Append(calls, IteratorCall(qry, "started", "none"))
    /\ UNCHANGED <<cache, chains, config, flags, iteratorQueryQueue, queues, workers,
                   initializer, shutdowns>>

\* Bus.IteratorQuery(qry) up to bus.queryStarted(): the nil check, the load of
\* the initialized flag and the count of the query as ongoing.
IteratorQuery(qry) ==
    /\ Len(calls) < MaxCalls
    /\ IF ~isValid(qry)
       THEN /\ calls' = Append(calls, IteratorCall(qry, "returned", InvalidQueryError))
            /\ UNCHANGED ongoingQueries
       ELSE IF ~isInitialized
       THEN /\ calls' = Append(calls, IteratorCall(qry, "returned", BusNotInitializedError))
            /\ UNCHANGED ongoingQueries
       ELSE /\ calls' = Append(calls, IteratorCall(qry, "started", "none"))
            /\ ongoingQueries' = ongoingQueries + 1
    /\ UNCHANGED <<cache, chains, config, initialized, shuttingDown, iteratorWorkers,
                   iteratorQueryQueue, queues, workers, initializer, shutdowns>>

\* The refusal is also reported to the error handlers.
IteratorQueryCheckNotifies(c) ==
    /\ calls[c].kind = "IteratorQuery" /\ calls[c].pc = "started"
    /\ IF isShuttingDown
       THEN /\ ongoingQueries' = ongoingQueries - 1
            /\ calls' = [calls EXCEPT ![c].pc = "returned",
                                      ![c].err = BusIsShuttingDownError,
                                      ![c].notified = error(errorHandlers, BusIsShuttingDownError)]
       ELSE /\ calls' = [calls EXCEPT ![c].pc = "enqueue"]
            /\ UNCHANGED ongoingQueries
    /\ UNCHANGED <<cache, chains, config, initialized, shuttingDown, iteratorWorkers,
                   iteratorQueryQueue, queues, workers, initializer, shutdowns>>

\* The look at the shutting-down flag is left out: the query is always accepted.
IteratorQueryCheckAccepts(c) ==
    /\ calls[c].kind = "IteratorQuery" /\ calls[c].pc = "started"
    /\ calls' = [calls EXCEPT ![c].pc = "enqueue"]
    /\ UNCHANGED <<cache, chains, config, flags, iteratorQueryQueue, queues, workers,
                   initializer, shutdowns>>

\* if bus.isShuttingDown() { bus.queryFinished(); return nil, BusIsShuttingDownError }
IteratorQueryCheck(c) ==
    /\ calls[c].kind = "IteratorQuery" /\ calls[c].pc = "started"
    /\ IF isShuttingDown
       THEN /\ ongoingQueries' = ongoingQueries - 1
            /\ calls' = [calls EXCEPT ![c].pc = "returned",
                                      ![c].err = BusIsShuttingDownError]
       ELSE /\ calls' = [calls EXCEPT ![c].pc = "enqueue"]
            /\ UNCHANGED ongoingQueries
    /\ UNCHANGED <<cache, chains, config, initialized, shuttingDown, iteratorWorkers,
                   iteratorQueryQueue, queues, workers, initializer, shutdowns>>

\* The send goes through on a full queue as well.
HasRoomWhenFull(q) == q # 0

HasRoom(q) == q # 0 /\ Len(queues[q].buf) < queues[q].cap

\* Bus.enqueueQuery: the result is made and the work item is sent on the
\* inbound queue; the caller blocks while the queue is full.
IteratorQueryEnqueue(c) ==
    /\ calls[c].kind = "IteratorQuery" /\ calls[c].pc = "enqueue"
    /\ HasRoom(iteratorQueryQueue)
    /\ queues' = [queues EXCEPT ![iteratorQueryQueue].buf = Append(@, c)]
    /\ calls' = [calls EXCEPT ![c].pc = "returned", ![c].err = NoError,
                              ![c].res = newIteratorResult(iteratorResultBuffer),
                              ![c].listener = "idle"]
    /\ UNCHANGED <<cache, chains, config, flags, iteratorQueryQueue, workers, initializer,
                   shutdowns>>

\* Bus.enqueueQuery reached while Initialize has set the initialized flag and
\* not yet made the queue: the send is on a nil channel and blocks for ever,
\* the query staying counted as ongoing.
IteratorQueryEnqueueNil(c) ==
    /\ calls[c].kind = "IteratorQuery" /\ calls[c].pc = "enqueue"
    /\ iteratorQueryQueue = 0
    /\ calls' = [calls EXCEPT ![c].pc = "blocked",
                              ![c].res = newIteratorResult(iteratorResultBuffer)]
    /\ UNCHANGED <<cache, chains, config, flags, iteratorQueryQueue, queues, workers,
                   initializer, shutdowns>>

\* --------------------------------------------------------------- the worker

\* for penQry := range queryQueue: a nil item ends the loop.
WorkerReceive(w) ==
    /\ workers[w].pc = "recv"
    /\ Len(queues[workers[w].queue].buf) > 0
    /\ LET item == Head(queues[workers[w].queue].buf)
       IN  workers' = [workers EXCEPT ![w].pc = IF item = NilItem THEN "closing" ELSE "wait",
                                      ![w].item = item]
    /\ queues' = [queues EXCEPT ![workers[w].queue].buf = Tail(@)]
    /\ UNCHANGED <<cache, chains, config, flags, iteratorQueryQueue, calls, initializer,
                   shutdowns>>

\* The worker starts the walk of the chain it reads from the bus.
Attached(c, w) ==
    /\ calls' = [calls EXCEPT ![c].res.listening = 0,
                              ![c].chain = iteratorHandlers,
                              ![c].outcome = IF @ = "none" THEN "dispatched" ELSE "both"]
    /\ workers' = [workers EXCEPT ![w].pc = "dispatch", ![w].hdl = 1]

\* waitListener that lets its timer win although the gate is filled.
ListenerTimedOutDespiteGate(w) ==
    /\ workers[w].pc = "wait"
    /\ LET c == workers[w].item
       IN  calls' = [calls EXCEPT
               ![c].notified = @ \o error(errorHandlers, NewErrorQueryTimedOut),
               ![c].errHdls = errorHandlers,
               ![c].outcome = IF @ = "none" THEN "timedOut" ELSE "both"]
    /\ workers' = [workers EXCEPT ![w].pc = "close"]
    /\ UNCHANGED <<cache, chains, config, flags, iteratorQueryQueue, queues, initializer,
                   shutdowns>>

\* waitListener finds the listener gate filled, at its first look or while it
\* waits for the gate and the timer: it takes the signal and reports a listener.
ListenerAttached(w) ==
    /\ workers[w].pc = "wait"
    /\ calls[workers[w].item].res.listening = 1
    /\ Attached(workers[w].item, w)
    /\ UNCHANGED <<cache, chains, config, flags, iteratorQueryQueue, queues, initializer,
                   shutdowns>>

\* The timeout is reported but the worker goes on to dispatch the item.
ListenerTimedOutDispatches(w) ==
    /\ workers[w].pc = "wait"
    /\ calls[workers[w].item].res.listening = 0
    /\ LET c == workers[w].item
       IN  calls' = [calls EXCEPT
               ![c].notified = @ \o error(errorHandlers, NewErrorQueryTimedOut),
               ![c].errHdls = errorHandlers,
               ![c].chain = iteratorHandlers,
               ![c].outcome = IF @ = "none" THEN "timedOut" ELSE "both"]
    /\ workers' = [workers EXCEPT ![w].pc = "dispatch", ![w].hdl = 1]
    /\ UNCHANGED <<cache, chains, config, flags, iteratorQueryQueue, queues, initializer,
                   shutdowns>>

\* The timer of waitListener fires while the gate is still empty: the item is
\* reported to the error handlers and dropped.
ListenerTimedOut(w) ==
    /\ workers[w].pc = "wait"
    /\ calls[workers[w].item].res.listening = 0
    /\ LET c == workers[w].item
       IN  calls' = [calls EXCEPT
               ![c].notified = @ \o error(errorHandlers, NewErrorQueryTimedOut),
               ![c].errHdls = errorHandlers,
               ![c].outcome = IF @ = "none" THEN "timedOut" ELSE "both"]
    /\ workers' = [workers EXCEPT ![w].pc = "close"]
    /\ UNCHANGED <<cache, chains, config, flags, iteratorQueryQueue, queues, initializer,
                   shutdowns>>

\* The handler at position h has made its last Yield: the rest of the handler,
\* then Bus.query's look at what it returned and at the result. The call
\* record and the worker afterwards.
Returned(call, wkr, res) ==
    LET h == wkr.hdl
        out == IteratorHandle(call.chain[h], res)
        base == [call EXCEPT !.res = out.res]
        closing == [wkr EXCEPT !.pc = "close", !.hdl = 0, !.yields = 0]
    IN  IF out.err # NoError
        THEN [call |-> [base EXCEPT !.notified = @ \o error(errorHandlers, out.err),
                                    !.errHdls = errorHandlers],
              wkr |-> closing]
        ELSE IF propagationStopped(out.res)
        THEN [call |-> base, wkr |-> closing]
        ELSE IF h < Len(call.chain)
        THEN [call |-> base, wkr |-> [wkr EXCEPT !.hdl = h + 1, !.yields = 0]]
        ELSE IF coreIsHandled(out.res)
        THEN [call |-> base, wkr |-> closing]
        ELSE [call |-> [base EXCEPT
                           !.notified = @ \o error(errorHandlers, NewErrorNoQueryHandlersFound),
                           !.errHdls = errorHandlers],
              wkr |-> closing]

\* Bus.query calls the next iterator handler; a handler that yields stops at
\* its first Yield. An empty chain leaves the result unhandled.
Dispatch(w) ==
    /\ workers[w].pc = "dispatch"
    /\ LET c == workers[w].item
           h == workers[w].hdl
           call == calls[c]
       IN  IF Len(call.chain) = 0
           THEN /\ calls' = [calls EXCEPT
                       ![c].notified = @ \o error(errorHandlers, NewErrorNoQueryHandlersFound),
                       ![c].errHdls = errorHandlers]
                /\ workers' = [workers EXCEPT ![w].pc = "close", ![w].hdl = 0]
           ELSE LET invoked == [call EXCEPT !.invoked = Append(@, h)]
                IN  IF Yields(call.chain[h]) > 0
                    THEN /\ calls' = [calls EXCEPT ![c] = invoked]
                         /\ workers' = [workers EXCEPT ![w].pc = "yield",
                                            ![w].yields = Yields(call.chain[h])]
                    ELSE LET nxt == Returned(invoked, workers[w], invoked.res)
                         IN  /\ calls' = [calls EXCEPT ![c] = nxt.call]
                             /\ workers' = [workers EXCEPT ![w] = nxt.wkr]
    /\ UNCHANGED <<cache, chains, config, flags, iteratorQueryQueue, queues, initializer,
                   shutdowns>>

\* The worker after a Yield it was blocked in went through.
Yielded(c, w, call) ==
    IF workers[w].yields > 1
    THEN /\ calls' = [calls EXCEPT ![c] = call]
         /\ workers' = [workers EXCEPT ![w].yields = @ - 1]
    ELSE LET nxt == Returned(call, [workers[w] EXCEPT !.pc = "dispatch"], call.res)
         IN  /\ calls' = [calls EXCEPT ![c] = nxt.call]
             /\ workers' = [workers EXCEPT ![w] = nxt.wkr]

\* Yield that pushes its value whether the proxy channel has room or not.
YieldIgnoresRoom(w) ==
    /\ workers[w].pc = "yield"
    /\ LET c == workers[w].item
           res == calls[c].res
       IN  Yielded(c, w, [calls[c] EXCEPT
               !.res = [Handled(res) EXCEPT
                           !.proxy = Append(@, YieldValue(workers[w].hdl, workers[w].yields))]])
    /\ UNCHANGED <<cache, chains, config, flags, iteratorQueryQueue, queues, initializer,
                   shutdowns>>

\* Yield that buffers its value and leaves the result unmarked.
YieldUnmarked(w) ==
    /\ workers[w].pc = "yield"
    /\ LET c == workers[w].item
           res == calls[c].res
       IN  /\ Len(res.proxy) < res.buffer
           /\ Yielded(c, w, [calls[c] EXCEPT
                  !.res.proxy = Append(@, YieldValue(workers[w].hdl, workers[w].yields))])
    /\ UNCHANGED <<cache, chains, config, flags, iteratorQueryQueue, queues, initializer,
                   shutdowns>>

\* IteratorResult.Yield on a proxy channel with room: the result is marked
\* handled and the value is buffered.
Yield(w) ==
    /\ workers[w].pc = "yield"
    /\ LET c == workers[w].item
           res == calls[c].res
       IN  /\ Len(res.proxy) < res.buffer
           /\ Yielded(c, w, [calls[c] EXCEPT
                  !.res = [Handled(res) EXCEPT
                              !.proxy = Append(@, YieldValue(workers[w].hdl, workers[w].yields))]])
    /\ UNCHANGED <<cache, chains, config, flags, iteratorQueryQueue, queues, initializer,
                   shutdowns>>

\* IteratorResult.Yield on an unbuffered proxy channel: the value goes straight
\* to the consumer blocked in its receive.
YieldToListener(w) ==
    /\ workers[w].pc = "yield"
    /\ LET c == workers[w].item
           res == calls[c].res
       IN  /\ res.buffer = 0
           /\ calls[c].listener = "draining"
           /\ Yielded(c, w, [calls[c] EXCEPT
                  !.res = Handled(res),
                  !.received = Append(@, YieldValue(workers[w].hdl, workers[w].yields))])
    /\ UNCHANGED <<cache, chains, config, flags, iteratorQueryQueue, queues, initializer,
                   shutdowns>>

\* The worker counts the query as finished and leaves its result open.
WorkerCloseLeavesOpen(w) ==
    /\ workers[w].pc = "close"
    /\ ongoingQueries' = ongoingQueries - 1
    /\ workers' = [workers EXCEPT ![w].pc = "recv", ![w].item = NilItem]
    /\ UNCHANGED <<cache, chains, config, initialized, shuttingDown, iteratorWorkers,
                   iteratorQueryQueue, queues, calls, initializer, shutdowns>>

\* The worker closes the result of a dispatched item only; a timed-out item is
\* counted as finished with its result left open.
WorkerCloseDispatchedOnly(w) ==
    /\ workers[w].pc = "close"
    /\ calls' = [calls EXCEPT ![workers[w].item].res.closed =
                     IF calls[workers[w].item].outcome = "timedOut" THEN @ ELSE @ + 1]
    /\ ongoingQueries' = ongoingQueries - 1
    /\ workers' = [workers EXCEPT ![w].pc = "recv", ![w].item = NilItem]
    /\ UNCHANGED <<cache, chains, config, initialized, shuttingDown, iteratorWorkers,
                   iteratorQueryQueue, queues, initializer, shutdowns>>

\* close(penQry.res); bus.queryFinished()
WorkerClose(w) ==
    /\ workers[w].pc = "close"
    /\ calls' = [calls EXCEPT ![workers[w].item].res.closed = @ + 1]
    /\ ongoingQueries' = ongoingQueries - 1
    /\ workers' = [workers EXCEPT ![w].pc = "recv", ![w].item = NilItem]
    /\ UNCHANGED <<cache, chains, config, initialized, shuttingDown, iteratorWorkers,
                   iteratorQueryQueue, queues, initializer, shutdowns>>

\* ------------------------------------------------------------- the consumer

\* IteratorResult.Iterate(): fills the listener gate if it is empty and hands
\* the proxy channel to the consumer, which starts to drain it.
Iterate(c) ==
    /\ calls[c].kind = "IteratorQuery" /\ calls[c].pc = "returned"
    /\ calls[c].err = NoError
    /\ calls[c].listener = "idle"
    /\ calls' = [calls EXCEPT ![c].res.listening = 1, ![c].listener = "draining"]
    /\ UNCHANGED <<cache, chains, config, flags, iteratorQueryQueue, queues, workers,
                   initializer, shutdowns>>

\* A further call of Iterate() on a result that was iterated already: the
\* attempt to fill the gate is made again, and the channel is handed out again.
IterateAgain(c) ==
    /\ calls[c].kind = "IteratorQuery" /\ calls[c].pc = "returned"
    /\ calls[c].err = NoError
    /\ calls[c].listener # "idle"
    /\ calls' = [calls EXCEPT ![c].res.listening = 1]
    /\ UNCHANGED <<cache, chains, config, flags, iteratorQueryQueue, queues, workers,
                   initializer, shutdowns>>

\* The consumer receives a buffered value.
ListenerReceive(c) ==
    /\ calls[c].listener = "draining"
    /\ Len(calls[c].res.proxy) > 0
    /\ calls' = [calls EXCEPT ![c].res.proxy = Tail(@),
                              ![c].received = Append(@, Head(calls[c].res.proxy))]
    /\ UNCHANGED <<cache, chains, config, flags, iteratorQueryQueue, queues, workers,
                   initializer, shutdowns>>

\* The consumer's receive on the closed and empty channel ends its loop.
ListenerEnd(c) ==
    /\ calls[c].listener = "draining"
    /\ Len(calls[c].res.proxy) = 0
    /\ calls[c].res.closed > 0
    /\ calls' = [calls EXCEPT ![c].listener = "ended"]
    /\ UNCHANGED <<cache, chains, config, flags, iteratorQueryQueue, queues, workers,
                   initializer, shutdowns>>

\* ------------------------------------------------------------------ Shutdown

\* Bus.Shutdown(): only the caller that wins the flag runs bus.shutdown().
Shutdown(s) ==
    /\ shutdowns[s] = "idle"
    /\ IF shuttingDown = 0
       THEN /\ shuttingDown' = 1
            /\ shutdowns' = [shutdowns EXCEPT ![s] = "drain"]
       ELSE /\ shutdowns' = [shutdowns EXCEPT ![s] = "skipped"]
            /\ UNCHANGED shuttingDown
    /\ UNCHANGED <<cache, chains, config, initialized, ongoingQueries, iteratorWorkers,
                   iteratorQueryQueue, queues, calls, workers, initializer>>

\* bus.shutdown() that goes on to the sentinels without the wait.
ShutdownSkipsDrain(s) ==
    /\ shutdowns[s] = "drain"
    /\ shutdowns' = [shutdowns EXCEPT ![s] = "loop"]
    /\ UNCHANGED <<cache, chains, config, flags, iteratorQueryQueue, queues, calls, workers,
                   initializer>>

\* for atomic.LoadUint32(bus.ongoingQueries) > 0 { time.Sleep(...) }
ShutdownDrained(s) ==
    /\ shutdowns[s] = "drain"
    /\ ongoingQueries = 0
    /\ shutdowns' = [shutdowns EXCEPT ![s] = "loop"]
    /\ UNCHANGED <<cache, chains, config, flags, iteratorQueryQueue, queues, calls, workers,
                   initializer>>

\* The stores after Shutdown() on every adapter of the bus.
shutdownAdapters ==
    [ad \in AdapterIds |->
        IF ad \in Configured THEN MemoryCacheAdapterShutdown(adapters[ad])
        ELSE adapters[ad]]

\* bus.shutdown() that returns with the initialized flag still set.
ShutdownLoopStaysInitialized(s) ==
    /\ shutdowns[s] = "loop"
    /\ IF iteratorWorkers > 0
       THEN /\ shutdowns' = [shutdowns EXCEPT ![s] = "send"]
            /\ UNCHANGED adapters
       ELSE /\ shutdowns' = [shutdowns EXCEPT ![s] = "returned"]
            /\ adapters' = shutdownAdapters
    /\ UNCHANGED <<cacheAdapters, now, chains, config, flags, iteratorQueryQueue, queues,
                   calls, workers, initializer>>

\* for atomic.LoadUint32(bus.workers) > 0 { ... }, then the cache adapters are
\* shut down and atomic.CompareAndSwapUint32(bus.initialized, 1, 0)
\* atomic.CompareAndSwapUint32(bus.initialized, 1, 0)
ShutdownLoop(s) ==
    /\ shutdowns[s] = "loop"
    /\ IF iteratorWorkers > 0
       THEN /\ shutdowns' = [shutdowns EXCEPT ![s] = "send"]
            /\ UNCHANGED <<initialized, adapters>>
       ELSE /\ shutdowns' = [shutdowns EXCEPT ![s] = "returned"]
            /\ adapters' = shutdownAdapters
            /\ initialized' = 0
    /\ UNCHANGED <<cacheAdapters, now, chains, config, shuttingDown, ongoingQueries, iteratorWorkers,
                   iteratorQueryQueue, queues, calls, workers, initializer>>

\* bus.queryQueue <- nil
ShutdownSend(s) ==
    /\ shutdowns[s] = "send"
    /\ HasRoom(iteratorQueryQueue)
    /\ queues' = [queues EXCEPT ![iteratorQueryQueue].buf = Append(@, NilItem)]
    /\ shutdowns' = [shutdowns EXCEPT ![s] = "recv"]
    /\ UNCHANGED <<cache, chains, config, flags, iteratorQueryQueue, calls, workers,
                   initializer>>

\* The worker's closed <- true meets shutdown's <-bus.closed: the worker is gone.
WorkerClosed(w, s) ==
    /\ workers[w].pc = "closing"
    /\ shutdowns[s] = "recv"
    /\ workers' = [workers EXCEPT ![w] = NoWorker]
    /\ shutdowns' = [shutdowns EXCEPT ![s] = "down"]
    /\ UNCHANGED <<cache, chains, config, flags, iteratorQueryQueue, queues, calls,
                   initializer>>

\* The first acknowledgment is taken for that of the whole pool.
ShutdownWorkerDownAll(s) ==
    /\ shutdowns[s] = "down"
    /\ iteratorWorkers' = 0
    /\ shutdowns' = [shutdowns EXCEPT ![s] = "loop"]
    /\ UNCHANGED <<cache, chains, config, initialized, shuttingDown, ongoingQueries,
                   iteratorQueryQueue, queues, calls, workers, initializer>>

\* bus.workerDown()
ShutdownWorkerDown(s) ==
    /\ shutdowns[s] = "down"
    /\ iteratorWorkers' = iteratorWorkers - 1
    /\ shutdowns' = [shutdowns EXCEPT ![s] = "loop"]
    /\ UNCHANGED <<cache, chains, config, initialized, shuttingDown, ongoingQueries,
                   iteratorQueryQueue, queues, calls, workers, initializer>>

\* -------------------------------------------------------------------- cache

bus == <<chains, config, flags, iteratorQueryQueue, queues, workers, initializer,
         shutdowns>>

\* Bus.CacheAdapters(ads...): the adapters in use are shut down, then the list
\* is replaced.
CacheAdapters(ads) ==
    /\ adapters' = shutdownAdapters
    /\ cacheAdapters' = ads
    /\ UNCHANGED <<now, calls, bus>>

\* MemoryCacheAdapter.Expire(qry), called by the application on adapter ad.
Expire(ad, qry) ==
    /\ adapters' = [adapters EXCEPT ![ad] = MemoryCacheAdapterExpire(@, qry)]
    /\ UNCHANGED <<cacheAdapters, now, calls, bus>>

\* One turn of the cleaner goroutine of adapter ad, from the head of its loop
\* to its select; the goroutine returns once the adapter is shutting down.
cleaner(ad) ==
    /\ adapters[ad].pc = "loop"
    /\ adapters' = [adapters EXCEPT ![ad] =
                        IF @.shuttingDown = 0
                        THEN [cleanerPass(@, now) EXCEPT !.pc = "sleep"]
                        ELSE [@ EXCEPT !.pc = "exited"]]
    /\ UNCHANGED <<cacheAdapters, now, calls, bus>>

\* case <-ad.sleepTimer.C
cleanerTimer(ad) ==
    /\ adapters[ad].pc = "sleep"
    /\ now >= adapters[ad].timer
    /\ adapters' = [adapters EXCEPT ![ad].pc = "loop"]
    /\ UNCHANGED <<cacheAdapters, now, calls, bus>>

\* case <-ad.cleanerSignal
cleanerSignalled(ad) ==
    /\ adapters[ad].pc = "sleep"
    /\ adapters[ad].cleanerSignal = 1
    /\ adapters' = [adapters EXCEPT ![ad].pc = "loop", ![ad].cleanerSignal = 0]
    /\ UNCHANGED <<cacheAdapters, now, calls, bus>>

\* The same turn of the cleaner with the order of its walk of the map left
\* open.
cleanerInOrder(ad) ==
    /\ adapters[ad].pc = "loop"
    /\ \E order \in Walks(adapters[ad]) :
           adapters' = [adapters EXCEPT ![ad] =
                            IF @.shuttingDown = 0
                            THEN [cleanerPassInOrder(@, order, now) EXCEPT !.pc = "sleep"]
                            ELSE [@ EXCEPT !.pc = "exited"]]
    /\ UNCHANGED <<cacheAdapters, now, calls, bus>>

\* The *Result an application hands to Set: one value, the cache key of the
\* query, stamped as the bus stamps it or left unstamped.
AdapterResult(qry, stamped) ==
    LET res == Add(newCacheableResult(qry), qry)
    IN  IF stamped THEN expires(cached(res, now), now + CacheDuration(qry)) ELSE res

\* The record of a call made on adapter ad directly: what was handed to Set,
\* or what Get returned.
AdapterCall(kind, ad, qry, res) ==
    [kind |-> kind, qry |-> qry, pc |-> "returned", hit |-> ad, res |-> res]

\* MemoryCacheAdapter.Set(qry, res, at), called on adapter ad.
AdapterSet(ad, qry, stamped) ==
    /\ Len(calls) < MaxOps
    /\ adapters' = [adapters EXCEPT ![ad] =
                        MemoryCacheAdapterSet(@, qry, AdapterResult(qry, stamped), now)]
    /\ calls' = Append(calls, AdapterCall("Set", ad, qry, AdapterResult(qry, stamped)))
    /\ UNCHANGED <<cacheAdapters, now, bus>>

\* MemoryCacheAdapter.Get(qry), called on adapter ad.
AdapterGet(ad, qry) ==
    /\ Len(calls) < MaxOps
    /\ calls' = Append(calls, AdapterCall("Get", ad, qry,
                                          MemoryCacheAdapterGet(adapters[ad], qry)))
    /\ UNCHANGED <<cache, bus>>

\* MemoryCacheAdapter.Shutdown(), called on adapter ad.
AdapterShutdown(ad) ==
    /\ adapters' = [adapters EXCEPT ![ad] = MemoryCacheAdapterShutdown(@)]
    /\ UNCHANGED <<cacheAdapters, now, calls, bus>>

\* The RWMutex revision of the adapter, one step per critical section. A call
\* that holds the lock has pc "locked"; a call is logged when it acquires the
\* lock, so a caller waiting in Lock or RLock is a caller that has not yet
\* acted.
Writers(ad) ==
    {c \in CallIds : /\ calls[c].hit = ad /\ calls[c].pc = "locked"
                     /\ calls[c].kind \in {"Set", "Expire"}}

Readers(ad) ==
    {c \in CallIds : calls[c].hit = ad /\ calls[c].pc = "locked" /\ calls[c].kind = "Get"}

\* Set(qry, res): ad.Lock()
SetLock(ad, qry) ==
    /\ Len(calls) < MaxOps
    /\ Writers(ad) = {} /\ Readers(ad) = {}
    /\ calls' = Append(calls, [AdapterCall("Set", ad, qry, AdapterResult(qry, TRUE))
                                  EXCEPT !.pc = "locked"])
    /\ UNCHANGED <<cache, bus>>

\* ad.cachedResults[string(qry.CacheKey())] = res; ad.Unlock()
SetStore(c) ==
    /\ c \in CallIds /\ calls[c].kind = "Set" /\ calls[c].pc = "locked"
    /\ adapters' = [adapters EXCEPT
                        ![calls[c].hit].cachedResults[CacheKey(calls[c].qry)] = calls[c].res]
    /\ calls' = [calls EXCEPT ![c].pc = "unlocked"]
    /\ UNCHANGED <<cacheAdapters, now, bus>>

\* ad.clean(); return true
SetClean(c) ==
    /\ c \in CallIds /\ calls[c].kind = "Set" /\ calls[c].pc = "unlocked"
    /\ adapters' = [adapters EXCEPT ![calls[c].hit] = clean(@)]
    /\ calls' = [calls EXCEPT ![c].pc = "returned"]
    /\ UNCHANGED <<cacheAdapters, now, bus>>

\* Get(qry): ad.RLock()
GetRLock(ad, qry) ==
    /\ Len(calls) < MaxOps
    /\ Writers(ad) = {}
    /\ calls' = Append(calls, [AdapterCall("Get", ad, qry, NoResult) EXCEPT !.pc = "locked"])
    /\ UNCHANGED <<cache, bus>>

\* res := ad.cachedResults[string(qry.CacheKey())]; ad.RUnlock(); return res
GetRead(c) ==
    /\ c \in CallIds /\ calls[c].kind = "Get" /\ calls[c].pc = "locked"
    /\ calls' = [calls EXCEPT ![c].pc = "returned",
                              ![c].res = MemoryCacheAdapterGet(adapters[calls[c].hit],
                                                               calls[c].qry)]
    /\ UNCHANGED <<cache, bus>>

\* Expire(qry): ad.Lock()
ExpireLock(ad, qry) ==
    /\ Len(calls) < MaxOps
    /\ Writers(ad) = {} /\ Readers(ad) = {}
    /\ calls' = Append(calls, [AdapterCall("Expire", ad, qry, NoResult)
                                  EXCEPT !.pc = "locked"])
    /\ UNCHANGED <<cache, bus>>

\* delete(ad.cachedResults, ck); ad.Unlock()
ExpireDelete(c) ==
    /\ c \in CallIds /\ calls[c].kind = "Expire" /\ calls[c].pc = "locked"
    /\ adapters' = [adapters EXCEPT ![calls[c].hit] =
                        MemoryCacheAdapterExpire(@, calls[c].qry)]
    /\ calls' = [calls EXCEPT ![c].pc = "returned"]
    /\ UNCHANGED <<cacheAdapters, now, bus>>

\* The cleaner from the head of its loop to its Unlock: the flag is read,
\* sleepUntil is cleared and the walk is made under the write lock.
cleanerScan(ad) ==
    /\ adapters[ad].pc = "loop"
    /\ IF adapters[ad].shuttingDown = 1
       THEN adapters' = [adapters EXCEPT ![ad].pc = "exited"]
       ELSE /\ Writers(ad) = {} /\ Readers(ad) = {}
            /\ \E order \in Walks(adapters[ad]) :
                   adapters' = [adapters EXCEPT ![ad] =
                                    [sweepInOrder([@ EXCEPT !.sleepUntil = ZeroTime],
                                                  order, now)
                                        EXCEPT !.pc = "unlocked"]]
    /\ UNCHANGED <<cacheAdapters, now, calls, bus>>

\* The stores a read that takes no lock can see: the store as it is, and, while
\* a writer is inside its critical section, the store as that writer leaves it.
Seen(ad) ==
    {adapters[ad]} \cup
    {[adapters[ad] EXCEPT !.cachedResults[CacheKey(calls[c].qry)] =
         IF calls[c].kind = "Set" THEN calls[c].res ELSE NoResult] : c \in Writers(ad)}

\* ad.updateSleepTimer(ad.determineSleepDuration()), after the Unlock: the
\* length of the map is read with no lock held.
cleanerArm(ad) ==
    /\ adapters[ad].pc = "unlocked"
    /\ \E seen \in Seen(ad) :
           adapters' = [adapters EXCEPT ![ad] =
                            [updateSleepTimer(@, now, determineSleepDuration(seen, now))
                                EXCEPT !.pc = "sleep"]]
    /\ UNCHANGED <<cacheAdapters, now, calls, bus>>

\* One Result in the hands of a handler: the methods of the carrier called in
\* any order. calls is the log of the calls made on it, each with its argument
\* and the Result as the call left it.
ResultValues == {"a", "b"}

ResultCall(kind, arg, res) == [kind |-> kind, arg |-> arg, res |-> res]

\* The Result as the last call left it; newResult() before the first call.
Carrier == IF calls = << >> THEN newResult ELSE calls[Len(calls)].res

\* res.Add(v)
ResultAdd(v) ==
    /\ Len(calls) < MaxOps
    /\ calls' = Append(calls, ResultCall("Add", v, Add(Carrier, v)))
    /\ UNCHANGED <<cache, bus>>

\* res.Set(data), with a slice that has room for spare more values.
ResultSet(data, spare) ==
    /\ Len(calls) < MaxOps
    /\ calls' = Append(calls, ResultCall("Set", data,
                                         [Set(Carrier, data) EXCEPT !.cap = @ + spare]))
    /\ UNCHANGED <<cache, bus>>

\* res.Handled()
ResultHandled ==
    /\ Len(calls) < MaxOps
    /\ calls' = Append(calls, ResultCall("Handled", "none", Handled(Carrier)))
    /\ UNCHANGED <<cache, bus>>

\* res.Done()
ResultDone ==
    /\ Len(calls) < MaxOps
    /\ calls' = Append(calls, ResultCall("Done", "none", Done(Carrier)))
    /\ UNCHANGED <<cache, bus>>

\* A second passes.
Tick ==
    /\ now < MaxTime
    /\ now' = now + 1
    /\ UNCHANGED <<adapters, cacheAdapters, calls, bus>>

\* ------------------------------------------------------- the specifications

\* NewBus(): the pool size is the host's GOMAXPROCS.
Init ==
    /\ handlers = << >>
    /\ errorHandlers = << >>
    /\ iteratorHandlers = << >>
    /\ iteratorWorkerPoolSize \in 1 .. MaxPoolSize
    /\ iteratorQueueBuffer = DefaultQueueBuffer
    /\ iteratorResultBuffer = 0
    /\ initialized = 0
    /\ shuttingDown = 0
    /\ ongoingQueries = 0
    /\ iteratorWorkers = 0
    /\ iteratorQueryQueue = 0
    /\ queues = << >>
    /\ calls = << >>
    /\ workers = [w \in WorkerSlots |-> NoWorker]
    /\ initializer = NoInitializer
    /\ shutdowns = [s \in ShutdownCallers \cup ShutdownThreads |-> "idle"]
    /\ adapters = [ad \in AdapterIds |-> NewMemoryCacheAdapter]
    /\ cacheAdapters = <<1>>
    /\ now = 1

HandlerChains == SeqsUpTo(HandlerKinds, MaxHandlers)
ErrorHandlerLists == {[i \in 1 .. n |-> i] : n \in 0 .. MaxErrorHandlers}

\* The synchronous side of the bus: registration and Query.
NextQuery ==
    \/ \E hdls \in HandlerChains : Handlers(hdls)
    \/ \E hdls \in ErrorHandlerLists : ErrorHandlers(hdls)
    \/ \E qry \in Queries \cup {NilQuery} : Query(qry)

SpecQuery == Init /\ [][NextQuery]_vars

\* The bus is configured before it is initialized and before it is queried.
Fresh == calls = << >> /\ initialized = 0 /\ initializer.done = 0

BusHandlerChains == SeqsUpTo({"add"}, MaxBusHandlers)
BusIteratorHandlerChains == SeqsUpTo({"yield", "err"}, MaxBusHandlers)

\* The whole bus with its default buffers (an unbuffered proxy channel, in
\* which no value ever waits): registration, both kinds of query, the worker
\* pool, the consumers and Shutdown.
Next ==
    \/ \E hdls \in BusHandlerChains : Fresh /\ Handlers(hdls)
    \/ \E hdls \in {<<1>>} : Fresh /\ ErrorHandlers(hdls)
    \/ \E qry \in Queries \cup {NilQuery} : Query(qry)
    \/ \E hdls \in BusIteratorHandlerChains : InitializeIteratorHandlers(hdls)
    \/ InitializeSetup
    \/ InitializeSpawn
    \/ InitializeClear
    \/ \E qry \in Queries \cup {NilQuery} : IteratorQuery(qry)
    \/ \E c \in CallIds : IteratorQueryCheck(c)
    \/ \E c \in CallIds : IteratorQueryEnqueue(c)
    \/ \E w \in WorkerSlots : WorkerReceive(w)
    \/ \E w \in WorkerSlots : ListenerAttached(w)
    \/ \E w \in WorkerSlots : ListenerTimedOut(w)
    \/ \E w \in WorkerSlots : Dispatch(w)
    \/ \E w \in WorkerSlots : YieldToListener(w)
    \/ \E w \in WorkerSlots : WorkerClose(w)
    \/ \E c \in CallIds : Iterate(c)
    \/ \E c \in CallIds : ListenerEnd(c)
    \/ \E s \in ShutdownCallers : Shutdown(s)
    \/ \E s \in ShutdownCallers : ShutdownDrained(s)
    \/ \E s \in ShutdownCallers : ShutdownLoop(s)
    \/ \E s \in ShutdownCallers : ShutdownSend(s)
    \/ \E w \in WorkerSlots, s \in ShutdownCallers : WorkerClosed(w, s)
    \/ \E s \in ShutdownCallers : ShutdownWorkerDown(s)

Spec == Init /\ [][Next]_vars

IterateChains == SeqsUpTo({"pass", "yield2", "yieldDone", "err"}, MaxIteratorHandlers)

\* The iteration runs of an initialized pool: chains that yield several values,
\* stop, fail or do nothing, over an unbuffered or a buffered proxy channel.
NextIterate ==
    \/ \E n \in 0 .. MaxResultBuffer : Fresh /\ IteratorResultBuffer(n)
    \/ \E hdls \in {<<1>>} : Fresh /\ ErrorHandlers(hdls)
    \/ \E hdls \in IterateChains : InitializeIteratorHandlers(hdls)
    \/ InitializeSetup
    \/ InitializeSpawn
    \/ InitializeClear
    \/ \E qry \in Queries : IteratorQuery(qry)
    \/ \E c \in CallIds : IteratorQueryCheck(c)
    \/ \E c \in CallIds : IteratorQueryEnqueue(c)
    \/ \E w \in WorkerSlots : WorkerReceive(w)
    \/ \E w \in WorkerSlots : ListenerAttached(w)
    \/ \E w \in WorkerSlots : ListenerTimedOut(w)
    \/ \E w \in WorkerSlots : Dispatch(w)
    \/ \E w \in WorkerSlots : Yield(w)
    \/ \E w \in WorkerSlots : YieldToListener(w)
    \/ \E w \in WorkerSlots : WorkerClose(w)
    \/ \E c \in CallIds : Iterate(c)
    \/ \E c \in CallIds : ListenerReceive(c)
    \/ \E c \in CallIds : ListenerEnd(c)

\* The goroutines never stop for good: the thread inside
\* InitializeIteratorHandlers, the workers, and a consumer ranging over the
\* channel it was handed. Nothing makes a caller call.
FairIterate ==
    /\ WF_vars(InitializeSetup) /\ WF_vars(InitializeSpawn) /\ WF_vars(InitializeClear)
    /\ \A w \in WorkerSlots :
           /\ WF_vars(WorkerReceive(w))
           /\ WF_vars(ListenerAttached(w) \/ ListenerTimedOut(w))
           /\ WF_vars(Dispatch(w))
           /\ WF_vars(Yield(w) \/ YieldToListener(w))
           /\ WF_vars(WorkerClose(w))
    /\ \A c \in 1 .. MaxCalls :
           WF_vars(c \in CallIds /\ (ListenerReceive(c) \/ ListenerEnd(c)))

SpecIterate == Init /\ [][NextIterate]_vars /\ FairIterate

\* The life cycle of the bus with Shutdown called from several threads, at any
\* moment from construction on.
NextShutdown ==
    \/ \E hdls \in {<<"add">>} : Fresh /\ Handlers(hdls)
    \/ \E qry \in Queries : Query(qry)
    \/ \E hdls \in {<<"yield">>} : InitializeIteratorHandlers(hdls)
    \/ InitializeSetup
    \/ InitializeSpawn
    \/ InitializeClear
    \/ \E qry \in Queries : IteratorQuery(qry)
    \/ \E c \in CallIds : IteratorQueryCheck(c)
    \/ \E c \in CallIds : IteratorQueryEnqueue(c)
    \/ \E w \in WorkerSlots : WorkerReceive(w)
    \/ \E w \in WorkerSlots : ListenerAttached(w)
    \/ \E w \in WorkerSlots : ListenerTimedOut(w)
    \/ \E w \in WorkerSlots : Dispatch(w)
    \/ \E w \in WorkerSlots : YieldToListener(w)
    \/ \E w \in WorkerSlots : WorkerClose(w)
    \/ \E c \in CallIds : Iterate(c)
    \/ \E c \in CallIds : ListenerEnd(c)
    \/ \E s \in ShutdownThreads : Shutdown(s)
    \/ \E s \in ShutdownThreads : ShutdownDrained(s)
    \/ \E s \in ShutdownThreads : ShutdownLoop(s)
    \/ \E s \in ShutdownThreads : ShutdownSend(s)
    \/ \E w \in WorkerSlots, s \in ShutdownThreads : WorkerClosed(w, s)
    \/ \E s \in ShutdownThreads : ShutdownWorkerDown(s)

SpecShutdown == Init /\ [][NextShutdown]_vars

\* The same life cycle with the callers of IteratorQuery free to race with the
\* initialization, the send on the queue that does not exist yet included.
NextRace ==
    \/ NextShutdown
    \/ \E c \in CallIds : IteratorQueryEnqueueNil(c)

SpecRace == Init /\ [][NextRace]_vars

\* The bus is running: InitializeIteratorHandlers has returned and no Shutdown
\* has completed since.
Running == initialized = 1 /\ initializer.pc = "idle"

\* The life cycle of a bus whose Shutdown is called while it is running, from
\* several threads.
NextDrain ==
    \/ \E hdls \in {<<1>>} : Fresh /\ ErrorHandlers(hdls)
    \/ \E hdls \in BusIteratorHandlerChains : InitializeIteratorHandlers(hdls)
    \/ InitializeSetup
    \/ InitializeSpawn
    \/ InitializeClear
    \/ \E qry \in Queries : IteratorQuery(qry)
    \/ \E c \in CallIds : IteratorQueryCheck(c)
    \/ \E c \in CallIds : IteratorQueryEnqueue(c)
    \/ \E w \in WorkerSlots : WorkerReceive(w)
    \/ \E w \in WorkerSlots : ListenerAttached(w)
    \/ \E w \in WorkerSlots : ListenerTimedOut(w)
    \/ \E w \in WorkerSlots : Dispatch(w)
    \/ \E w \in WorkerSlots : YieldToListener(w)
    \/ \E w \in WorkerSlots : WorkerClose(w)
    \/ \E c \in CallIds : Iterate(c)
    \/ \E c \in CallIds : ListenerEnd(c)
    \/ \E s \in ShutdownThreads : Running /\ Shutdown(s)
    \/ \E s \in ShutdownThreads : ShutdownDrained(s)
    \/ \E s \in ShutdownThreads : ShutdownLoop(s)
    \/ \E s \in ShutdownThreads : ShutdownSend(s)
    \/ \E w \in WorkerSlots, s \in ShutdownThreads : WorkerClosed(w, s)
    \/ \E s \in ShutdownThreads : ShutdownWorkerDown(s)

SpecDrain == Init /\ [][NextDrain]_vars

\* The handoff between the worker and the consumer: the consumer attaches
\* early, late, more than once or never, the worker's timer fires or does not.
NextListener ==
    \/ \E hdls \in {<<1>>} : Fresh /\ ErrorHandlers(hdls)
    \/ \E hdls \in BusIteratorHandlerChains : InitializeIteratorHandlers(hdls)
    \/ InitializeSetup
    \/ InitializeSpawn
    \/ InitializeClear
    \/ \E qry \in Queries : IteratorQuery(qry)
    \/ \E c \in CallIds : IteratorQueryCheck(c)
    \/ \E c \in CallIds : IteratorQueryEnqueue(c)
    \/ \E w \in WorkerSlots : WorkerReceive(w)
    \/ \E w \in WorkerSlots : ListenerAttached(w)
    \/ \E w \in WorkerSlots : ListenerTimedOut(w)
    \/ \E w \in WorkerSlots : Dispatch(w)
    \/ \E w \in WorkerSlots : YieldToListener(w)
    \/ \E w \in WorkerSlots : WorkerClose(w)
    \/ \E c \in CallIds : Iterate(c)
    \/ \E c \in CallIds : IterateAgain(c)
    \/ \E c \in CallIds : ListenerEnd(c)

SpecListener == Init /\ [][NextListener]_vars /\ FairIterate

\* No call of InitializeIteratorHandlers is under way.
Settled == initializer.pc = "idle"

\* The pool behind a small inbound queue, which the callers and the sentinels
\* of Shutdown fill up. The application initializes the bus before it uses
\* it: queries are issued and the bus is shut down while no initialization is
\* under way.
NextQueue ==
    \/ \E n \in 1 .. MaxQueueBuffer : Fresh /\ IteratorQueueBuffer(n)
    \/ \E hdls \in BusIteratorHandlerChains : InitializeIteratorHandlers(hdls)
    \/ InitializeSetup
    \/ InitializeSpawn
    \/ InitializeClear
    \/ \E qry \in Queries : Settled /\ IteratorQuery(qry)
    \/ \E c \in CallIds : IteratorQueryCheck(c)
    \/ \E c \in CallIds : IteratorQueryEnqueue(c)
    \/ \E w \in WorkerSlots : WorkerReceive(w)
    \/ \E w \in WorkerSlots : ListenerAttached(w)
    \/ \E w \in WorkerSlots : ListenerTimedOut(w)
    \/ \E w \in WorkerSlots : Dispatch(w)
    \/ \E w \in WorkerSlots : YieldToListener(w)
    \/ \E w \in WorkerSlots : WorkerClose(w)
    \/ \E c \in CallIds : Iterate(c)
    \/ \E c \in CallIds : ListenerEnd(c)
    \/ \E s \in ShutdownThreads : Running /\ Shutdown(s)
    \/ \E s \in ShutdownThreads : ShutdownDrained(s)
    \/ \E s \in ShutdownThreads : ShutdownLoop(s)
    \/ \E s \in ShutdownThreads : ShutdownSend(s)
    \/ \E w \in WorkerSlots, s \in ShutdownThreads : WorkerClosed(w, s)
    \/ \E s \in ShutdownThreads : ShutdownWorkerDown(s)

\* The bus through more than one life: configured, initialized, queried, shut
\* down and initialized again. The pool size may be set and the
\* initialization may be called at any moment; queries and Shutdown are issued
\* by callers that are not racing with an initialization.
NextLifecycle ==
    \/ \E n \in 1 .. MaxPoolSize : IteratorWorkerPoolSize(n)
    \/ \E hdls \in BusIteratorHandlerChains : Reinitialize(hdls)
    \/ InitializeSetup
    \/ InitializeSpawn
    \/ InitializeClear
    \/ \E qry \in Queries : Settled /\ IteratorQuery(qry)
    \/ \E c \in CallIds : IteratorQueryCheck(c)
    \/ \E c \in CallIds : IteratorQueryEnqueue(c)
    \/ \E w \in WorkerSlots : WorkerReceive(w)
    \/ \E w \in WorkerSlots : ListenerAttached(w)
    \/ \E w \in WorkerSlots : ListenerTimedOut(w)
    \/ \E w \in WorkerSlots : Dispatch(w)
    \/ \E w \in WorkerSlots : YieldToListener(w)
    \/ \E w \in WorkerSlots : WorkerClose(w)
    \/ \E c \in CallIds : Iterate(c)
    \/ \E c \in CallIds : ListenerEnd(c)
    \/ \E s \in ShutdownThreads : Running /\ Shutdown(s)
    \/ \E s \in ShutdownThreads : ShutdownDrained(s)
    \/ \E s \in ShutdownThreads : ShutdownLoop(s)
    \/ \E s \in ShutdownThreads : ShutdownSend(s)
    \/ \E w \in WorkerSlots, s \in ShutdownThreads : WorkerClosed(w, s)
    \/ \E s \in ShutdownThreads : ShutdownWorkerDown(s)

SpecLifecycle == Init /\ [][NextLifecycle]_vars

\* Every goroutine that can take a step takes one in the end: the thread
\* inside InitializeIteratorHandlers, a caller inside IteratorQuery, the
\* workers, a consumer ranging over its channel and a thread inside Shutdown.
\* Nothing makes a caller call, a consumer attach or the application shut
\* the bus down.
FairQueue ==
    /\ WF_vars(InitializeSetup) /\ WF_vars(InitializeSpawn) /\ WF_vars(InitializeClear)
    /\ \A c \in 1 .. MaxCalls :
           /\ WF_vars(c \in CallIds /\ IteratorQueryCheck(c))
           /\ WF_vars(c \in CallIds /\ IteratorQueryEnqueue(c))
           /\ WF_vars(c \in CallIds /\ ListenerEnd(c))
    /\ \A w \in WorkerSlots :
           /\ WF_vars(WorkerReceive(w))
           /\ WF_vars(ListenerAttached(w) \/ ListenerTimedOut(w))
           /\ WF_vars(Dispatch(w))
           /\ WF_vars(YieldToListener(w))
           /\ WF_vars(WorkerClose(w))
    /\ \A s \in ShutdownThreads :
           /\ WF_vars(ShutdownDrained(s))
           /\ WF_vars(ShutdownLoop(s))
           /\ WF_vars(ShutdownSend(s))
           /\ WF_vars(ShutdownWorkerDown(s))
           /\ \A w \in WorkerSlots : WF_vars(WorkerClosed(w, s))

SpecQueue == Init /\ [][NextQueue]_vars /\ FairQueue

\* The lists of distinct adapters an application can hand to CacheAdapters.
RECURSIVE AdapterListsOf(_)
AdapterListsOf(ads) ==
    {<< >>} \cup UNION {{<<ad>> \o rest : rest \in AdapterListsOf(ads \ {ad})} : ad \in ads}

AdapterLists == AdapterListsOf(AdapterIds)

\* No adapter was shut down yet: the adapters of the bus are replaced once.
Untouched == \A ad \in AdapterIds : adapters[ad].shuttingDown = 0

\* The synchronous Query over the cache: cacheable and plain queries, before
\* and after the one handler is registered, while the application replaces the
\* adapters and expires entries, the cleaners sweep and time passes.
NextCache ==
    \/ \E hdls \in {<<"add">>} : Handlers(hdls)
    \/ \E qry \in Cacheable \cup Queries : Query(qry)
    \/ \E ads \in AdapterLists : Untouched /\ CacheAdapters(ads)
    \/ \E ad \in AdapterIds, qry \in Cacheable : Expire(ad, qry)
    \/ \E ad \in AdapterIds : cleaner(ad)
    \/ \E ad \in AdapterIds : cleanerTimer(ad)
    \/ \E ad \in AdapterIds : cleanerSignalled(ad)
    \/ Tick

SpecCache == Init /\ [][NextCache]_vars

\* An adapter used directly by the application: Set, Get, Expire and Shutdown
\* on the first adapter, with results stamped or not and two queries that
\* share a cache key, while its cleaner runs and time passes.
NextAdapter ==
    \/ \E qry \in SharedKey, stamped \in BOOLEAN : AdapterSet(1, qry, stamped)
    \/ \E qry \in SharedKey : AdapterGet(1, qry)
    \/ \E qry \in SharedKey : Expire(1, qry)
    \/ AdapterShutdown(1)
    \/ cleanerInOrder(1)
    \/ cleanerTimer(1)
    \/ cleanerSignalled(1)
    \/ Tick

\* The cleaner goroutine keeps running and time passes.
FairAdapter ==
    /\ WF_vars(Tick)
    /\ WF_vars(cleanerInOrder(1))
    /\ WF_vars(cleanerTimer(1) \/ cleanerSignalled(1))

\* The bus the adapter belongs to is not used: one pool size is enough.
InitAdapter == Init /\ iteratorWorkerPoolSize = 1

SpecAdapter == InitAdapter /\ [][NextAdapter]_vars

\* The adapter with its cleaner under fair scheduling: entries are stored,
\* expired and waited for, nothing is read back.
NextSweep ==
    \/ \E qry \in SharedKey, stamped \in BOOLEAN : AdapterSet(1, qry, stamped)
    \/ \E qry \in SharedKey : Expire(1, qry)
    \/ AdapterShutdown(1)
    \/ cleanerInOrder(1)
    \/ cleanerTimer(1)
    \/ cleanerSignalled(1)
    \/ Tick

SpecSweep == InitAdapter /\ [][NextSweep]_vars /\ FairAdapter

\* ---------------------------------------------------------------- the claims

SyncQueries == {c \in CallIds : calls[c].kind = "Query" /\ calls[c].qry # NilQuery}
IteratorQueries ==
    {c \in CallIds : calls[c].kind = "IteratorQuery" /\ calls[c].qry # NilQuery}

\* The handler kinds by what they do, read off the registered chain.
StopKinds == {"done", "addDone"}
ErrKinds == {"err", "addErr"}
AddKinds == {"add", "addDone", "addErr"}
MarkKinds == {"handled", "done", "addDone"}

\* <<1, ..., n>>, and the positions of a chain whose handler is of one of kinds.
UpTo(n) == [j \in 1 .. n |-> j]
Positions(chain, kinds) == SelectSeq(UpTo(Len(chain)), LAMBDA j : chain[j] \in kinds)

\* Handler i is reached: no handler before it ends the walk.
Reached(chain, i) ==
    /\ i \in 1 .. Len(chain)
    /\ \A j \in 1 .. (i - 1) : chain[j] \notin StopKinds \cup ErrKinds

\* One delivery of err to each of the error handlers, in their order.
ToldOnce(errHdls, err) == [k \in 1 .. Len(errHdls) |-> <<errHdls[k], err>>]

\* Call c is a work item on its way: in an inbound queue or held by a worker.
Enqueued(c) ==
    \/ \E q \in 1 .. Len(queues) : \E k \in 1 .. Len(queues[q].buf) : queues[q].buf[k] = c
    \/ \E w \in WorkerSlots : workers[w].pc # "off" /\ workers[w].item = c

\* C1: in every step of the bus, whatever its lifecycle state, a nil query
\* given to Query or to IteratorQuery has returned InvalidQuery with no result,
\* no handler or iterator handler invoked, no error handler told and no work
\* item enqueued; the step that makes the call changes nothing else of the bus.
C1_NilQueryIsInvalid ==
    [][\A c \in 1 .. Len(calls') :
          calls'[c].qry = NilQuery =>
              /\ calls'[c].pc = "returned"
              /\ calls'[c].err = InvalidQueryError
              /\ calls'[c].res = NoResult
              /\ calls'[c].invoked = << >>
              /\ calls'[c].notified = << >>
              /\ ~Enqueued(c)'
              /\ c > Len(calls) => /\ queues' = queues
                                   /\ workers' = workers
                                   /\ flags' = flags]_vars

\* A nil Query and a nil IteratorQuery were both refused by a bus that has
\* handlers, iterator handlers and live workers, while it is shutting down.
C1_Witness ==
    /\ Len(calls) = 2
    /\ calls[1].kind = "Query" /\ calls[1].qry = NilQuery
    /\ calls[2].kind = "IteratorQuery" /\ calls[2].qry = NilQuery
    /\ calls[1].err = InvalidQueryError /\ calls[2].err = InvalidQueryError
    /\ handlers # << >> /\ iteratorHandlers # << >>
    /\ isInitialized /\ isShuttingDown /\ iteratorWorkers > 0

C5_HandlerErrorStopsTheChain ==
    \A c \in SyncQueries :
        \A i \in 1 .. Len(calls[c].chain) :
            (Reached(calls[c].chain, i) /\ calls[c].chain[i] \in ErrKinds)
                => /\ calls[c].invoked = UpTo(i)
                   /\ calls[c].notified = ToldOnce(calls[c].errHdls, HandlerError)
                   /\ calls[c].err = HandlerError

\* The first of two handlers failed with two error handlers registered: both
\* were told once, the second handler was not invoked.
C5_Witness ==
    \E c \in SyncQueries :
        /\ calls[c].chain = <<"addErr", "add">>
        /\ calls[c].errHdls = <<1, 2>>
        /\ calls[c].invoked = <<1>>
        /\ calls[c].notified = << <<1, HandlerError>>, <<2, HandlerError>> >>

\* The error a chain ends in, read off the kinds of its handlers: the first
\* handler that ends the walk decides; a walk that reaches the end fails
\* when no handler added a value or marked the result.
Decisive(chain) ==
    {i \in 1 .. Len(chain) : Reached(chain, i) /\ chain[i] \in StopKinds \cup ErrKinds}
Failure(chain) ==
    IF Decisive(chain) # {}
    THEN IF \E i \in Decisive(chain) : chain[i] \in ErrKinds THEN HandlerError ELSE NoError
    ELSE IF \E i \in 1 .. Len(chain) : chain[i] \in AddKinds \cup MarkKinds
    THEN NoError ELSE NewErrorNoQueryHandlersFound

SubmissionErrors == {InvalidQueryError, BusNotInitializedError, BusIsShuttingDownError}
DispatchErrors == {NewErrorNoQueryHandlersFound, HandlerError, NewErrorQueryTimedOut}

\* The positions of the chain an iterator call has walked so far.
Ran(c) == {calls[c].invoked[k] : k \in 1 .. Len(calls[c].invoked)}

\* C7: an IteratorQuery whose failure reached the error handlers had been
\* accepted, with a result object and a nil error returned to its caller, and
\* the failure is one of no handlers found, handler error and listener
\* timeout; once the worker is done with the item every error handler has
\* been told of such a failure, and the caller's nil error stands. A call
\* refused at submission (nil query, not initialized, shutting down) got the
\* error and no result, and no error handler was told.
C7_IteratorErrorRouting ==
    \A c \in CallIds :
        calls[c].kind = "IteratorQuery" =>
            /\ calls[c].notified # << >>
                 => /\ calls[c].pc = "returned" /\ calls[c].err = NoError
                    /\ calls[c].res # NoResult
                    /\ \E e \in DispatchErrors :
                           calls[c].notified = ToldOnce(errorHandlers, e)
            /\ calls[c].outcome = "timedOut"
                 => calls[c].notified = ToldOnce(errorHandlers, NewErrorQueryTimedOut)
            /\ (calls[c].res # NoResult /\ calls[c].res.closed > 0
                    /\ calls[c].outcome = "dispatched")
                 => /\ (\E i \in Ran(c) : calls[c].chain[i] = "err")
                         => calls[c].notified = ToldOnce(errorHandlers, HandlerError)
                    /\ (\A i \in Ran(c) : calls[c].chain[i] = "pass")
                         => calls[c].notified =
                                ToldOnce(errorHandlers, NewErrorNoQueryHandlersFound)
            /\ calls[c].err \in SubmissionErrors
                 => /\ calls[c].pc = "returned"
                    /\ calls[c].res = NoResult
                    /\ calls[c].notified = << >>

\* One IteratorQuery was accepted and its failure went to the error handler
\* alone; another was refused while the bus was shutting down and only its
\* caller learnt of it.
C7_Witness ==
    /\ errorHandlers = <<1>>
    /\ \E c \in IteratorQueries :
           /\ calls[c].err = NoError /\ calls[c].res # NoResult
           /\ calls[c].notified = << <<1, HandlerError>> >>
    /\ \E c \in IteratorQueries :
           calls[c].err = BusIsShuttingDownError /\ calls[c].notified = << >>

\* Call c has just been refused with err: no result, nothing enqueued.
RefusedWith(c, err) ==
    /\ calls'[c].pc = "returned"
    /\ calls'[c].err = err
    /\ calls'[c].res = NoResult
    /\ queues' = queues
    /\ ~Enqueued(c)'

Walked(chain) ==
    UpTo(IF Decisive(chain) = {} THEN Len(chain)
         ELSE CHOOSE i \in Decisive(chain) : \A j \in Decisive(chain) : i <= j)

RECURSIVE YieldedFrom(_, _)
YieldedFrom(chain, i) ==
    IF i > Len(chain) THEN << >>
    ELSE [k \in 1 .. Yields(chain[i]) |-> YieldValue(i, Yields(chain[i]) + 1 - k)]
         \o (IF chain[i] \in {"yieldDone", "done", "err"} THEN << >>
             ELSE YieldedFrom(chain, i + 1))

IsPrefix(a, b) == Len(a) <= Len(b) /\ a = SubSeq(b, 1, Len(a))

\* What left the worker for call c so far: received by the consumer or waiting
\* in the proxy channel.
Sent(c) == calls[c].received \o calls[c].res.proxy

\* C11: an accepted IteratorQuery whose consumer attached in time has its
\* proxy channel closed exactly once, after the walk of the chain: until then
\* what the worker sent is a prefix of the values the chain yields, in yield
\* order, and from the close on it is all of them; a consumer that saw the end
\* of the stream received exactly those values. Every consumer that iterates
\* reaches the end of the stream, also when the chain yielded nothing or
\* failed.
C11_IterationDeliversAndEnds ==
    /\ [](\A c \in IteratorQueries : calls[c].res # NoResult =>
            /\ calls[c].res.closed <= 1
            /\ calls[c].outcome = "timedOut" => Sent(c) = << >>
            /\ calls[c].outcome = "dispatched" =>
                 /\ IsPrefix(Sent(c), YieldedFrom(calls[c].chain, 1))
                 /\ calls[c].res.closed = 1 <=> ~Enqueued(c)
                 /\ calls[c].res.closed = 1 => Sent(c) = YieldedFrom(calls[c].chain, 1)
            /\ calls[c].listener = "ended" =>
                 /\ calls[c].res.closed = 1
                 /\ calls[c].res.proxy = << >>)
    /\ \A c \in 1 .. MaxCalls :
           (c \in CallIds /\ calls[c].listener = "draining")
               ~> (c \in CallIds /\ calls[c].listener = "ended")

\* A consumer that attached in time reached the end of the stream with the
\* three values of a two-handler chain, in the order they were yielded.
C11_Witness ==
    \E c \in IteratorQueries :
        /\ calls[c].outcome = "dispatched" /\ calls[c].listener = "ended"
        /\ calls[c].chain = <<"yield2", "yieldDone">>
        /\ calls[c].received = <<12, 11, 21>>
        /\ calls[c].res.closed = 1

\* A consumer that attached in time reached the end of the stream of a chain
\* that failed before it yielded anything.
C11_EmptyStream ==
    \E c \in IteratorQueries :
        /\ calls[c].outcome = "dispatched" /\ calls[c].listener = "ended"
        /\ calls[c].chain = <<"err">> /\ calls[c].received = << >>
        /\ calls[c].notified # << >>

\* The calls made by the step.
NewCalls == {c \in 1 .. Len(calls') : c > Len(calls)}

\* No goroutine panicked: no channel was closed twice and no counter of the
\* bus went below zero.
NoPanic ==
    /\ ongoingQueries >= 0 /\ iteratorWorkers >= 0
    /\ \A c \in IteratorQueries : calls[c].res # NoResult => calls[c].res.closed <= 1

\* Some Shutdown call ran to its end, none is under way and no initialization
\* has begun since.
Stopped ==
    /\ \E s \in DOMAIN shutdowns : shutdowns[s] = "returned"
    /\ \A s \in DOMAIN shutdowns : shutdowns[s] \in {"idle", "returned", "skipped"}
    /\ shuttingDown = 1 /\ initializer.pc = "idle"

\* A Shutdown call that found the flag taken returned and touched nothing.
SkippedShutdownsChangeNothing ==
    (\E s \in DOMAIN shutdowns : shutdowns[s] = "idle" /\ shutdowns'[s] = "skipped")
        => UNCHANGED <<cache, chains, config, flags, iteratorQueryQueue, queues, calls,
                       workers, initializer>>

\* A Query made by the step ran the registered chain and returned its outcome.
QueryStaysUsable ==
    \A c \in NewCalls : calls'[c].kind = "Query" =>
        /\ calls'[c].err \notin {BusNotInitializedError, BusIsShuttingDownError}
        /\ calls'[c].chain = <<"add">> => (calls'[c].err = NoError /\ All(calls'[c].res) = <<1>>)

WorkersGone == iteratorWorkers = 0 /\ \A w \in WorkerSlots : workers[w].pc = "off"
AdaptersShutDown == \A ad \in Configured : adapters[ad].shuttingDown = 1

\* The Shutdown calls that return in the step.
Returning ==
    {s \in DOMAIN shutdowns : /\ shutdowns[s] \notin {"returned", "skipped"}
                              /\ shutdowns'[s] \in {"returned", "skipped"}}

\* C13: whenever a call of Shutdown returns, also one made while another is
\* under way, every worker of the pool has exited and every cache adapter of
\* the bus has been shut down.
C13_ShutdownReturnsStopped ==
    [][Returning # {} => (WorkersGone' /\ AdaptersShutDown')]_vars

\* The work items: the IteratorQuery calls that passed the submission checks.
Accepted == {c \in IteratorQueries : calls[c].pc = "enqueue" \/ calls[c].res # NoResult}

\* Call c is through: its result was made, the worker closed it after the
\* dispatch or the timeout, and the item is in no queue and with no worker.
Processed(c) ==
    /\ calls[c].res # NoResult /\ calls[c].res.closed = 1
    /\ calls[c].outcome \in {"dispatched", "timedOut"}
    /\ ~Enqueued(c)

\* A worker takes a shutdown sentinel from the queue; bus.shutdown() returns.
SentinelDequeued ==
    \E w \in WorkerSlots : workers[w].pc = "recv" /\ workers'[w].pc = "closing"
ShutdownCompletes ==
    \E s \in DOMAIN shutdowns : shutdowns[s] = "loop" /\ shutdowns'[s] = "returned"

CacheableCalls ==
    {c \in NewCalls : calls'[c].kind = "Query" /\ calls'[c].qry \in Cacheable}

\* The positions in the bus's list of the adapters that store the query.
Holders(qry) ==
    {i \in 1 .. Len(cacheAdapters) :
        adapters[cacheAdapters[i]].cachedResults[CacheKey(qry)] # NoResult}

\* C15: a Query for a cacheable query stored by some adapter of the bus
\* returns the entry of the first adapter, in the order of the bus's list,
\* that stores it, marked as not fresh (IsFresh false, IsCached true) and with
\* the cache key of the query; no handler is invoked, no error handler told.
C15_FirstHitServedNotFresh ==
    [][\A c \in CacheableCalls :
          LET qry == calls'[c].qry
          IN  Holders(qry) # {} =>
                LET i == CHOOSE i \in Holders(qry) : \A j \in Holders(qry) : i <= j
                    entry == adapters[cacheAdapters[i]].cachedResults[CacheKey(qry)]
                    res == calls'[c].res
                IN  /\ calls'[c].hit = cacheAdapters[i]
                    /\ calls'[c].err = NoError
                    /\ res = [entry EXCEPT !.fresh = 0]
                    /\ ~IsFresh(res) /\ IsCached(res)
                    /\ res.cacheKey = CacheKey(qry)
                    /\ calls'[c].invoked = << >> /\ calls'[c].notified = << >>]_vars

\* The first Query cached its result; the second was served by the second
\* adapter of the bus's list, the first one holding nothing under the key.
C15_Witness ==
    /\ Len(calls) = 2 /\ Len(cacheAdapters) = 2
    /\ calls[1].qry = "cq1" /\ calls[1].hit = 0 /\ calls[1].invoked = <<1>>
    /\ calls[2].qry = "cq1" /\ calls[2].hit = cacheAdapters[2]
    /\ calls[2].invoked = << >> /\ IsCached(calls[2].res)
    /\ calls[2].res.cacheKey = "k1" /\ All(calls[2].res) = <<1>>
    /\ adapters[cacheAdapters[1]].cachedResults["k1"] = NoResult

\* The cleaner of the adapter has run its sweep and has no reason to run
\* again: it sleeps, its timer is not past due and no wake signal waits.
CaughtUp(ad) ==
    /\ adapters[ad].pc = "sleep"
    /\ adapters[ad].cleanerSignal = 0
    /\ now <= adapters[ad].timer

\* The earlier calls that got a cached result for the query: one written
\* through or one served from a store.
CachedBefore(qry) ==
    {c \in CallIds : /\ calls[c].kind = "Query" /\ calls[c].qry = qry
                     /\ calls[c].res # NoResult /\ CachedAt(calls[c].res) # ZeroTime}

\* C16: when a result was cached for a query with a duration, the time is past
\* the expiry of every result cached for it so far and the sweep of every
\* adapter of the bus has run since, the next Query for it is served by no
\* store: the chain runs again and the Result is fresh, cached anew from now.
C16_ExpiredAndSweptIsFresh ==
    [][\A c \in CacheableCalls :
          LET qry == calls'[c].qry
          IN  (/\ CachedBefore(qry) # {}
               /\ \A b \in CachedBefore(qry) : now > ExpiresAt(calls[b].res)
               /\ \A ad \in Configured : CaughtUp(ad))
              => /\ calls'[c].hit = 0
                 /\ calls'[c].invoked = UpTo(Len(handlers)) /\ calls'[c].invoked # << >>
                 /\ calls'[c].err = NoError
                 /\ IsFresh(calls'[c].res)
                 /\ CachedAt(calls'[c].res) = now]_vars

\* A result cached for one second at second 1 and, at second 3 and after the
\* sweep, the same query answered by the chain with a fresh result.
C16_Witness ==
    /\ Len(calls) = 2 /\ now = 3 /\ cacheAdapters = <<1>>
    /\ calls[1].err = NoError /\ calls[2].err = NoError
    /\ calls[1].qry = "cq1" /\ CachedAt(calls[1].res) = 1 /\ ExpiresAt(calls[1].res) = 2
    /\ calls[2].qry = "cq1" /\ calls[2].hit = 0 /\ calls[2].invoked = <<1>>
    /\ IsFresh(calls[2].res) /\ CachedAt(calls[2].res) = 3
    /\ adapters[1].shuttingDown = 0

\* The step is a call of Expire(qry) on adapter ad: the only step that takes
\* an entry out of a store while the cleaner of the adapter stands still.
Expires(ad, qry) ==
    /\ adapters[ad].cachedResults[CacheKey(qry)] # NoResult
    /\ adapters'[ad].cachedResults[CacheKey(qry)] = NoResult
    /\ adapters'[ad].pc = adapters[ad].pc

\* C17: Expire(q) on an adapter removes the entry stored under q's cache key,
\* whatever is left of its duration, and nothing else: the other keys of the
\* adapter, its cleaner and the other adapters are as before, and Get(q) finds
\* nothing afterwards; on an adapter that does not store the key Expire
\* changes nothing at all. A Query for a cacheable query that no adapter of
\* the bus stores, as right after its Expire, runs the chain and is fresh.
C17_ExpireRemovesExactlyOneKey ==
    /\ [](\A ad \in AdapterIds, qry \in Cacheable :
             LET after == MemoryCacheAdapterExpire(adapters[ad], qry)
             IN  /\ MemoryCacheAdapterGet(after, qry) = NoResult
                 /\ \A key \in CacheKeys \ {CacheKey(qry)} :
                        after.cachedResults[key] = adapters[ad].cachedResults[key]
                 /\ MemoryCacheAdapterGet(adapters[ad], qry) = NoResult
                        => after = adapters[ad])
    /\ [][/\ \A ad \in AdapterIds, qry \in Cacheable :
                Expires(ad, qry) =>
                    /\ adapters' = [adapters EXCEPT
                                       ![ad].cachedResults[CacheKey(qry)] = NoResult]
                    /\ MemoryCacheAdapterGet(adapters'[ad], qry) = NoResult
                    /\ UNCHANGED <<cacheAdapters, now, calls, bus>>
          /\ \A c \in CacheableCalls :
                Holders(calls'[c].qry) = {} =>
                    /\ calls'[c].hit = 0
                    /\ calls'[c].invoked = UpTo(Len(handlers))
                    /\ calls'[c].err = NoError => IsFresh(calls'[c].res)]_vars

\* A result cached for two seconds, expired by hand in the second it was
\* cached, and the same query answered by the chain at once with a fresh
\* result; the store holds the new entry.
C17_Witness ==
    /\ Len(calls) = 2 /\ now = 1 /\ cacheAdapters = <<1>>
    /\ calls[1].err = NoError /\ calls[2].err = NoError
    /\ calls[1].qry = "cq2" /\ ExpiresAt(calls[1].res) = 3
    /\ calls[2].qry = "cq2" /\ calls[2].hit = 0 /\ calls[2].invoked = <<1>>
    /\ IsFresh(calls[2].res)
    /\ adapters[1].cachedResults["k2"] = calls[2].res

\* The Query calls the step makes that no store served.
DispatchedCalls == {c \in NewCalls : calls'[c].kind = "Query" /\ calls'[c].hit = 0}

\* The dispatch of the call succeeded and its query asks to be cached.
WrittenThrough(c) ==
    /\ calls'[c].err = NoError
    /\ calls'[c].qry \in Cacheable
    /\ CacheDuration(calls'[c].qry) > 0

\* C18: a Query that was dispatched writes its Result through exactly when the
\* dispatch succeeded and the query is cacheable with a positive duration: the
\* Result, stamped cached now and expiring after the duration, is then stored
\* under the query's key by every adapter of the bus, and nothing else of the
\* stores changes but the wake signal. A failed dispatch, a query that is not
\* cacheable and a duration of zero or less leave every store as it was, and
\* the Result, if there is one, has a zero cached-at.
C18_WriteThroughOnlyOnSuccess ==
    [][\A c \in DispatchedCalls :
          LET qry == calls'[c].qry
              res == calls'[c].res
          IN  IF WrittenThrough(c)
              THEN /\ CachedAt(res) = now /\ ExpiresAt(res) = now + CacheDuration(qry)
                   /\ \A ad \in Configured :
                         /\ adapters'[ad].cachedResults =
                                [adapters[ad].cachedResults EXCEPT ![CacheKey(qry)] = res]
                         /\ adapters'[ad].cleanerSignal = 1
                   /\ \A ad \in AdapterIds \ Configured : adapters'[ad] = adapters[ad]
              ELSE /\ adapters' = adapters
                   /\ res # NoResult => CachedAt(res) = ZeroTime /\ ExpiresAt(res) = ZeroTime]_vars

\* A bus with two adapters, both storing the result the Query just returned.
C18_Witness ==
    /\ Len(cacheAdapters) = 2 /\ Len(calls) >= 1
    /\ LET c == Len(calls)
       IN  /\ calls[c].qry = "cq1" /\ calls[c].hit = 0 /\ calls[c].err = NoError
           /\ CachedAt(calls[c].res) = now
           /\ \A ad \in Configured : adapters[ad].cachedResults["k1"] = calls[c].res

\* A cacheable query that declares no duration was answered by the chain and
\* stored nowhere.
C18_NoDuration ==
    \E c \in CallIds :
        /\ calls[c].qry = "cq0" /\ calls[c].err = NoError /\ All(calls[c].res) = <<1>>
        /\ CachedAt(calls[c].res) = ZeroTime
        /\ \A ad \in AdapterIds : Stored(adapters[ad]) = {}

\* The step is a call of CacheAdapters that changes the bus.
Replaces ==
    \/ cacheAdapters' # cacheAdapters
    \/ \E ad \in AdapterIds : adapters'[ad].shuttingDown # adapters[ad].shuttingDown

\* The adapters of the bus took the place of others and none of them was in
\* use before; some replaced adapter still stores the query.
Replaced ==
    /\ \E ad \in AdapterIds \ Configured : adapters[ad].shuttingDown = 1
    /\ \A ad \in Configured : adapters[ad].shuttingDown = 0
StoredByReplaced(qry) ==
    \E ad \in AdapterIds \ Configured :
        adapters[ad].shuttingDown = 1 /\ adapters[ad].cachedResults[CacheKey(qry)] # NoResult

Stale(ad) ==
    {qry \in Cacheable :
        LET res == MemoryCacheAdapterGet(adapters[ad], qry)
        IN  res # NoResult /\ ExpiresAt(res) < now}

\* C20 as stated: no adapter ever returns from Get an entry whose expires-at
\* is earlier than the current time, and no Query is served such an entry.
C20_NeverReturnedOnceExpired ==
    /\ [](\A ad \in AdapterIds : Stale(ad) = {})
    /\ [][\A c \in CacheableCalls :
             calls'[c].hit # 0 => ExpiresAt(calls'[c].res) >= now]_vars

\* C20, amended: Get is a lookup that does not look at the expiry, so an
\* expired entry is returned until the cleaner's next sweep deletes it. An
\* adapter whose cleaner has caught up (asleep, timer not past due, no wake
\* signal waiting) returns no entry whose expires-at is earlier than the
\* current time, and a Query served by such an adapter gets an entry that has
\* not expired.
C20_NotReturnedOnceSwept ==
    /\ [](\A ad \in AdapterIds : CaughtUp(ad) => Stale(ad) = {})
    /\ [][\A c \in CacheableCalls :
             (calls'[c].hit # 0 /\ CaughtUp(calls'[c].hit))
                 => ExpiresAt(calls'[c].res) >= now]_vars

\* At second 3 the cleaner has caught up: the entry that expired at second 2
\* is gone from the store, the one that expires at second 3 is still there.
C20_Witness ==
    /\ now = 3 /\ cacheAdapters = <<1>> /\ CaughtUp(1) /\ Len(calls) = 2
    /\ calls[1].err = NoError /\ calls[2].err = NoError
    /\ {calls[1].qry, calls[2].qry} = {"cq1", "cq2"}
    /\ CachedAt(calls[1].res) = 1 /\ CachedAt(calls[2].res) = 1
    /\ Stored(adapters[1]) = {"k2"}
    /\ ExpiresAt(adapters[1].cachedResults["k2"]) = 3

\* The inbound queue is full: a send on it blocks.
Full(q) == q # 0 /\ Len(queues[q].buf) >= queues[q].cap

\* C21: no inbound queue ever holds more items than its capacity, which is the
\* configured one; a caller of IteratorQuery that reached the send on a full
\* queue stays in it, and leaves it only by appending its item to a queue that
\* had room, with a result object and a nil error; every item so accepted is in
\* the queue or with a worker until its result is closed; and under fair
\* scheduling the caller does get its slot and return.
C21_FullQueueBlocksNeverDrops ==
    /\ [](/\ \A q \in 1 .. Len(queues) : Len(queues[q].buf) <= queues[q].cap
          /\ iteratorQueryQueue # 0 => queues[iteratorQueryQueue].cap = iteratorQueueBuffer
          /\ \A c \in IteratorQueries :
                 calls[c].res # NoResult => (Enqueued(c) \/ Processed(c)))
    /\ [][\A c \in CallIds : calls[c].pc = "enqueue" =>
             /\ Full(iteratorQueryQueue) => calls'[c] = calls[c]
             /\ calls'[c].pc # "enqueue" =>
                    /\ queues' = [queues EXCEPT ![iteratorQueryQueue].buf = Append(@, c)]
                    /\ calls'[c].pc = "returned" /\ calls'[c].err = NoError
                    /\ calls'[c].res # NoResult]_vars
    /\ \A c \in 1 .. MaxCalls :
           (c \in CallIds /\ calls[c].pc = "enqueue")
               ~> (c \in CallIds /\ calls[c].pc = "returned" /\ calls[c].res # NoResult)

\* A queue of capacity 1 holds the item of the first call, which no worker has
\* taken yet, and the second caller, accepted as well, waits in its send.
C21_Witness ==
    /\ iteratorQueryQueue # 0 /\ iteratorQueueBuffer = 1
    /\ Len(calls) = 2
    /\ queues[iteratorQueryQueue].buf = <<1>>
    /\ calls[1].pc = "returned" /\ calls[1].err = NoError
    /\ calls[2].pc = "enqueue"
    /\ Full(iteratorQueryQueue)

\* Both callers got through a queue of capacity 1 and both items were
\* processed.
C21_BothServed ==
    /\ iteratorQueueBuffer = 1 /\ Len(calls) = 2
    /\ \A c \in {1, 2} : calls[c].res # NoResult /\ Processed(c)

\* The workers inside a Yield, and the value such a worker is about to push.
Yielding == {w \in WorkerSlots : workers[w].pc = "yield"}
Pushed(w) == YieldValue(workers[w].hdl, workers[w].yields)

C22_Rendezvous ==
    \E c \in IteratorQueries :
        /\ calls[c].res # NoResult /\ calls[c].res.buffer = 0
        /\ calls[c].chain = <<"yield2">> /\ calls[c].received = <<12, 11>>

\* The calls of IteratorQuery that returned a result object and a nil error.
Handed == {c \in IteratorQueries : calls[c].pc = "returned" /\ calls[c].res # NoResult}

\* The workers that range over queue q and have not taken a sentinel, and the
\* sentinels waiting in q.
LiveOn(q) == {w \in WorkerSlots : workers[w].queue = q /\ workers[w].pc \notin {"off", "closing"}}
Sentinels(q) == {k \in 1 .. Len(queues[q].buf) : queues[q].buf[k] = NilItem}

\* The step in which call c sends its item.
Enqueues(c) == calls[c].pc = "enqueue" /\ calls'[c].pc = "returned"

C23_FinishedBeforeStop ==
    /\ \E s \in DOMAIN shutdowns : shutdowns[s] = "returned"
    /\ \E c \in Handed : Processed(c) /\ calls[c].outcome = "dispatched"

Told(c, err) == {k \in 1 .. Len(calls[c].notified) : calls[c].notified[k][2] = err}

\* The gate of call c is filled and the worker has not decided on the item.
GateFilled(c) == calls[c].res # NoResult /\ calls[c].res.listening = 1 /\ calls[c].outcome = "none"

\* C25: a call of Iterate() fills the listener gate and the gate stays filled
\* until the worker takes the signal, wherever the item is at that moment, in
\* the queue or with a worker. An item whose gate is filled is never timed
\* out: the worker that waits for its listener reports it attached, the chain
\* is dispatched (under fair scheduling it is, in the end) and no QueryTimedOut
\* is reported for it. A timeout is only reported for an item whose result
\* nobody had iterated. Iterate() can be called at any moment on a result
\* that was handed out, a first time and again: it never waits.
C25_ListenerGatePersists ==
    /\ [](\A c \in Handed :
             /\ ENABLED (Iterate(c) \/ IterateAgain(c))
             /\ calls[c].outcome = "dispatched" => Told(c, NewErrorQueryTimedOut) = {})
    /\ [][\A c \in Handed :
             /\ GateFilled(c) =>
                    /\ calls'[c].outcome \in {"none", "dispatched"}
                    /\ calls'[c].outcome = "none" => calls'[c].res.listening = 1
                    /\ Told(c, NewErrorQueryTimedOut)' = {}
             /\ (calls[c].listener = "idle" /\ calls'[c].listener # "idle")
                    => calls'[c].res.listening = 1
             /\ (calls[c].outcome = "none" /\ calls'[c].outcome = "timedOut")
                    => calls[c].listener = "idle" /\ calls[c].res.listening = 0
             /\ (calls[c].outcome = "none" /\ calls'[c].outcome = "dispatched")
                    => /\ calls[c].res.listening = 1
                       /\ \E w \in WorkerSlots :
                              /\ workers[w].item = c /\ workers[w].pc = "wait"
                              /\ workers'[w].pc = "dispatch"]_vars
    /\ \A c \in 1 .. MaxCalls :
           (c \in Handed /\ GateFilled(c)) ~> (c \in Handed /\ calls[c].outcome = "dispatched")

\* The consumer called Iterate() while the item was still in the queue, no
\* worker having taken it yet.
C25_Witness ==
    \E c \in Handed :
        /\ GateFilled(c) /\ calls[c].listener = "draining"
        /\ \E k \in 1 .. Len(queues[iteratorQueryQueue].buf) :
               queues[iteratorQueryQueue].buf[k] = c
        /\ \A w \in WorkerSlots : workers[w].item # c

\* A result iterated a second time after the worker had taken the signal: the
\* gate is filled again, the item was dispatched once and its consumer saw the
\* end of the stream.
C25_IteratedTwice ==
    \E c \in Handed :
        /\ calls[c].outcome = "dispatched" /\ calls[c].listener = "ended"
        /\ calls[c].res.listening = 1 /\ calls[c].res.closed = 1

\* The worker is done with the item of call c: it is in no queue and no worker
\* holds it.
Released(c) == calls[c].res # NoResult /\ ~Enqueued(c)

\* C26: the worker closes the proxy channel of every item it took, after the
\* walk of the chain and after a listener timeout alike: the close is the step
\* by which the worker lets go of the item, whichever of the two outcomes the
\* item has, and an outcome once set never changes, so no item is both
\* dispatched and timed out. Under fair scheduling every item with an outcome
\* is closed, and a consumer that iterates a timed-out item, before or after
\* the close, sees the end of the stream, with no value received.
C26_ClosedInBothOutcomes ==
    /\ [](\A c \in Handed :
             /\ calls[c].outcome \in {"none", "timedOut", "dispatched"}
             /\ Released(c) => (calls[c].res.closed = 1 /\ calls[c].outcome # "none")
             /\ (calls[c].outcome = "timedOut" /\ calls[c].res.closed = 1
                 /\ calls[c].listener = "draining") => ENABLED ListenerEnd(c)
             /\ (calls[c].outcome = "timedOut" /\ calls[c].listener = "ended")
                    => calls[c].received = << >>)
    /\ [][\A c \in Handed :
             /\ calls[c].outcome # "none" => calls'[c].outcome = calls[c].outcome
             /\ calls'[c].res.closed # calls[c].res.closed =>
                    /\ calls[c].res.closed = 0 /\ calls'[c].res.closed = 1
                    /\ calls[c].outcome \in {"timedOut", "dispatched"}
                    /\ \E w \in WorkerSlots :
                           /\ workers[w].item = c /\ workers[w].pc = "close"
                           /\ workers'[w].item = NilItem]_vars
    /\ \A c \in 1 .. MaxCalls :
           /\ (c \in Handed /\ calls[c].outcome = "timedOut")
                  ~> (c \in Handed /\ Released(c) /\ calls[c].res.closed = 1)
           /\ (c \in Handed /\ calls[c].outcome = "dispatched")
                  ~> (c \in Handed /\ Released(c) /\ calls[c].res.closed = 1)
           /\ (c \in Handed /\ calls[c].outcome = "timedOut" /\ calls[c].listener = "draining")
                  ~> (c \in Handed /\ calls[c].listener = "ended")

\* A consumer that called Iterate() only after its item had timed out saw the
\* end of the stream: the timeout needs a result nobody iterated.
C26_Witness ==
    \E c \in Handed :
        /\ calls[c].outcome = "timedOut" /\ calls[c].res.closed = 1
        /\ calls[c].listener = "ended" /\ calls[c].received = << >>
        /\ Told(c, NewErrorQueryTimedOut) # {}

\* The other outcome next to it: one item timed out and one dispatched, both
\* closed.
C26_BothOutcomes ==
    \E c, d \in Handed :
        /\ calls[c].outcome = "timedOut" /\ calls[c].res.closed = 1
        /\ calls[d].outcome = "dispatched" /\ calls[d].res.closed = 1

\* The positions of the chain of call c whose handler was invoked.
InvokedAt(c) == {calls[c].invoked[k] : k \in 1 .. Len(calls[c].invoked)}

\* The handlers that yield and return nil, with no call of Handled() or Done().
YieldOnly == {"yield", "yield2"}

Phase ==
    IF initializer.pc # "idle" THEN "initializing"
    ELSE IF initialized = 0
    THEN (IF initializer.done = 0 THEN "uninitialized" ELSE "stopped")
    ELSE IF shuttingDown = 1 THEN "shutting down"
    ELSE "running"

\* The steps of the life cycle: a stopped bus is initialized like a new one.
LifeCycle ==
    {<<"uninitialized", "initializing">>, <<"initializing", "running">>,
     <<"running", "shutting down">>, <<"shutting down", "stopped">>,
     <<"stopped", "initializing">>}

\* The worker goroutines that are live.
Live == {w \in WorkerSlots : workers[w].pc # "off"}

C28_StoppedTwice ==
    /\ Phase = "stopped" /\ initializer.done = 2
    /\ \A s \in ShutdownThreads : shutdowns[s] = "returned"

\* C29: whenever the bus is initialized and not shutting down, so that an
\* IteratorQuery passes both checks, the inbound queue exists and the whole
\* worker pool is live, in every reachable state.
C29_InitializedMeansPoolLive ==
    (isInitialized /\ ~isShuttingDown) =>
        /\ iteratorQueryQueue # 0
        /\ iteratorWorkers = iteratorWorkerPoolSize
        /\ Cardinality({w \in Live : workers[w].pc # "closing"}) = iteratorWorkerPoolSize

\* The harm: a query that passed both checks is blocked in its send on the nil
\* queue, the bus has finished its initialization since, and the Shutdown that
\* was called waits for the blocked query.
C29_BlockedForEver ==
    /\ Running
    /\ \E c \in IteratorQueries : calls[c].pc = "blocked"
    /\ \E s \in ShutdownThreads : shutdowns[s] = "drain"

\* What does hold: once the initialization has returned, a bus that is
\* initialized and not shutting down has its queue and its whole pool.
C29_HoldsOnceSettled ==
    (Settled /\ isInitialized /\ ~isShuttingDown) =>
        /\ iteratorQueryQueue # 0
        /\ iteratorWorkers = iteratorWorkerPoolSize
        /\ Cardinality({w \in Live : workers[w].pc # "closing"}) = iteratorWorkerPoolSize

GetCalls == {c \in NewCalls : calls'[c].kind = "Get"}
SetCalls == {c \in NewCalls : calls'[c].kind = "Set"}

\* C31: MemoryCacheAdapter.Get returns the entry stored under the cache key of
\* the query at the moment of the call, nil when there is none, whether the
\* entry has expired or not, and changes nothing of the adapter: the store, the
\* wake signal and the cleaner are as they were.
C31_GetIsPlainLookup ==
    [][\A c \in GetCalls :
          /\ calls'[c].res = adapters[calls'[c].hit].cachedResults[CacheKey(calls'[c].qry)]
          /\ adapters' = adapters
          /\ now' = now]_vars

\* Get has just returned an entry that is past its expiry and that the cleaner
\* has not removed.
C31_Witness ==
    /\ calls # << >> /\ calls[Len(calls)].kind = "Get"
    /\ LET get == calls[Len(calls)]
       IN  /\ get.res # NoResult
           /\ Expired(get.res, now)
           /\ adapters[get.hit].cachedResults[CacheKey(get.qry)] = get.res

\* Get on a key nothing is stored under returns nil.
C31_Absent ==
    \E c \in CallIds :
        /\ calls[c].kind = "Get" /\ calls[c].res = NoResult
        /\ \E d \in CallIds : d < c /\ calls[d].kind = "Set"

\* The cleaner of adapter ad makes a pass over the store in this step.
Sweeps(ad) == adapters[ad].pc = "loop" /\ adapters'[ad].pc = "sleep"

\* C32: a pass of the cleaner made at second now removes the stored entries
\* that are stamped (cached-at set) and whose expires-at is before now, and no
\* other: an entry that expires at now or later and an entry that was never
\* stamped are after the pass what they were before it, and no entry appears.
C32_SweepDeletesExactlyExpired ==
    [][\A ad \in AdapterIds : Sweeps(ad) =>
          \A key \in CacheKeys :
              LET res == adapters[ad].cachedResults[key]
              IN  adapters'[ad].cachedResults[key] =
                      IF res # NoResult /\ res.cachedAt # ZeroTime /\ res.expiresAt < now
                      THEN NoResult ELSE res]_vars

\* The cleaner has just made its pass (it sleeps the idle hour from now on and
\* nothing was set since): an unstamped entry is still stored, and the stamped
\* entry that was set under the other key and has expired is gone.
C32_Witness ==
    /\ adapters[1].pc = "sleep" /\ adapters[1].cleanerSignal = 0
    /\ adapters[1].timer = now + Hour
    /\ adapters[1].cachedResults["k2"] # NoResult
    /\ adapters[1].cachedResults["k2"].cachedAt = ZeroTime
    /\ adapters[1].cachedResults["k1"] = NoResult
    /\ \E c \in CallIds :
           /\ calls[c].kind = "Set" /\ calls[c].qry = "cq1"
           /\ calls[c].res.cachedAt # ZeroTime /\ calls[c].res.expiresAt < now

\* A stamped entry that expires at this very second survived the pass that
\* was just made.
C32_SurvivesAtExpiry ==
    /\ adapters[1].pc = "sleep" /\ adapters[1].cleanerSignal = 0
    /\ adapters[1].timer = now
    /\ \E key \in CacheKeys :
           /\ adapters[1].cachedResults[key] # NoResult
           /\ adapters[1].cachedResults[key].cachedAt # ZeroTime
           /\ adapters[1].cachedResults[key].expiresAt = now


\* Every result handed to Set so far carried its stamps, as the results the
\* bus writes through do.
OnlyStampedSets ==
    \A c \in CallIds : calls[c].kind = "Set" => calls[c].res.cachedAt # ZeroTime

\* The entry stored under key is stamped and the time is past its expiry.
StoredExpired(key) ==
    /\ adapters[1].cachedResults[key] # NoResult
    /\ Expired(adapters[1].cachedResults[key], now)

\* The cleaner sleeps with no wake signal pending.
AsleepUnsignalled == adapters[1].pc = "sleep" /\ adapters[1].cleanerSignal = 0

C33_Evicted ==
    /\ AsleepUnsignalled /\ now = 3 /\ adapters[1].timer = 3 + Hour
    /\ adapters[1].shuttingDown = 0
    /\ Len(calls) = 1 /\ calls[1].kind = "Set" /\ calls[1].qry = "cq1"
    /\ calls[1].res.expiresAt = 2
    /\ Stored(adapters[1]) = {}


\* C34: once Shutdown was called on the adapter its cleaner returns, wherever
\* it was: at the head of its loop, or in its select with or without a wake
\* signal pending and with the timer an hour away. Shutdown can be taken in
\* every state (it waits for nothing), it leaves the flag set and a signal
\* pending, the flag is never cleared, and a cleaner that has returned stays
\* returned however often Shutdown is called again.
C34_ShutdownStopsCleaner ==
    /\ (adapters[1].shuttingDown = 1) ~> (adapters[1].pc = "exited")
    /\ [](ENABLED AdapterShutdown(1))
    /\ [][/\ (adapters'[1].shuttingDown # adapters[1].shuttingDown =>
                  adapters'[1].shuttingDown = 1 /\ adapters'[1].cleanerSignal = 1)
          /\ (adapters[1].pc = "exited" => adapters'[1].pc = "exited")]_vars

\* Shutdown was called while the cleaner was blocked in its select with the
\* timer an hour away and entries in the store: the signal is pending.
C34_Witness ==
    /\ adapters[1].shuttingDown = 1
    /\ adapters[1].pc = "sleep" /\ adapters[1].cleanerSignal = 1
    /\ adapters[1].timer > MaxTime
    /\ Stored(adapters[1]) # {}

\* The cleaner has returned after a Shutdown and has consumed the signal.
C34_Exited ==
    /\ adapters[1].shuttingDown = 1
    /\ adapters[1].pc = "exited" /\ adapters[1].cleanerSignal = 0
    /\ Stored(adapters[1]) # {}


\* The Set calls made on the adapter of call c before it with a query of the
\* same cache key.
SetsBefore(c) ==
    {d \in CallIds : /\ d < c /\ calls[d].kind = "Set" /\ calls[d].hit = calls[c].hit
                     /\ CacheKey(calls[d].qry) = CacheKey(calls[c].qry)}

LastSetBefore(c) == CHOOSE d \in SetsBefore(c) : \A e \in SetsBefore(c) : e <= d

\* C35: the store is keyed by the cache key of the query. Set puts the result
\* under the key of its query, over whatever was there, and leaves the entries
\* of the other keys alone; Get by any query returns either nothing or the
\* result of the latest Set made with a query of the same key, whichever query
\* that was.
C35_KeyedByCacheKey ==
    /\ [][\A c \in SetCalls :
             \A key \in CacheKeys :
                 adapters'[calls'[c].hit].cachedResults[key] =
                     IF key = CacheKey(calls'[c].qry) THEN calls'[c].res
                     ELSE adapters[calls'[c].hit].cachedResults[key]]_vars
    /\ [](\A c \in CallIds :
             calls[c].kind = "Get" /\ calls[c].res # NoResult =>
                 /\ SetsBefore(c) # {}
                 /\ calls[c].res = calls[LastSetBefore(c)].res)

\* Three calls: Set with cq2, Set with cq1 over it under another key, and a
\* Get with cq1b, a different query of the key of cq1, that returned the result
\* set with cq1; the entry of cq2 is still stored.
C35_Witness ==
    /\ Len(calls) = 3
    /\ calls[1].kind = "Set" /\ calls[1].qry = "cq2"
    /\ calls[2].kind = "Set" /\ calls[2].qry = "cq1"
    /\ calls[3].kind = "Get" /\ calls[3].qry = "cq1b"
    /\ calls[3].res = calls[2].res
    /\ adapters[1].cachedResults["k2"] = calls[1].res

\* A Set with cq1b replaced the entry set with cq1, and a Get with cq1 returned
\* the result set with cq1b.
C35_Overwritten ==
    /\ Len(calls) = 3
    /\ calls[1].kind = "Set" /\ calls[1].qry = "cq1"
    /\ calls[2].kind = "Set" /\ calls[2].qry = "cq1b"
    /\ calls[3].kind = "Get" /\ calls[3].qry = "cq1"
    /\ calls[3].res = calls[2].res /\ calls[3].res # calls[1].res


\* The calls that ran the chain and wrote their result through to the cache.
Fillers ==
    {c \in CallIds : /\ calls[c].kind = "Query" /\ calls[c].qry \in Cacheable
                     /\ calls[c].hit = 0 /\ calls[c].err = NoError
                     /\ CachedAt(calls[c].res) # ZeroTime}

\* The entry is the Result that call c was handed: Set stored the pointer, and
\* the only field written after the call returned is the freshness flag.
SameResult(entry, c) == entry # NoResult /\ [entry EXCEPT !.fresh = 1] = calls[c].res

\* C36: the Result handed to the caller that filled the cache keeps reporting
\* IsFresh and its values whatever later cache hits do: as long as an adapter
\* stores that Result, the stored object is fresh and has the values the
\* caller was handed.
C36_FillersResultStaysFresh ==
    \A c \in Fillers, ad \in AdapterIds :
        LET entry == adapters[ad].cachedResults[CacheKey(calls[c].qry)]
        IN  SameResult(entry, c) => IsFresh(entry) /\ All(entry) = All(calls[c].res)

\* The first Query filled the cache and was handed a fresh Result; the second
\* Query for the key was a cache hit, and the Result the store shares with the
\* first caller is no longer fresh.
C36_FillerTurnedStale ==
    /\ Len(calls) = 2
    /\ 1 \in Fillers /\ IsFresh(calls[1].res)
    /\ calls[2].kind = "Query" /\ calls[2].hit # 0
    /\ SameResult(adapters[calls[2].hit].cachedResults[CacheKey(calls[1].qry)], 1)
    /\ ~IsFresh(adapters[calls[2].hit].cachedResults[CacheKey(calls[1].qry)])
    /\ calls[2].res = adapters[calls[2].hit].cachedResults[CacheKey(calls[1].qry)]


\* The keys whose entries are stamped, and the expiries of those entries.
Stamped(ad) == {key \in Stored(ad) : CachedAt(ad.cachedResults[key]) # ZeroTime}
Expiries(ad) == {ExpiresAt(ad.cachedResults[key]) : key \in Stamped(ad)}

C37_IdleHour ==
    /\ AsleepUnsignalled /\ now = 3
    /\ Stored(adapters[1]) = {}
    /\ adapters[1].timer = now + Hour
    /\ \E c \in CallIds : calls[c].kind = "Set" /\ calls[c].res.cachedAt # ZeroTime

\* A stamped and a never stamped entry survived the pass: in one order of the
\* walk the timer is the expiry of the stamped entry, in the other an hour away.
C37_MixedTracked ==
    /\ AsleepUnsignalled
    /\ Stamped(adapters[1]) # {} /\ Stamped(adapters[1]) # Stored(adapters[1])
    /\ adapters[1].timer \in Expiries(adapters[1])

C37_MixedIdle ==
    /\ AsleepUnsignalled
    /\ Stamped(adapters[1]) # {} /\ Stamped(adapters[1]) # Stored(adapters[1])
    /\ adapters[1].timer = now + Hour


\* The RWMutex revision used directly by the application.
NextLock ==
    \/ \E qry \in SharedKey : SetLock(1, qry)
    \/ \E c \in CallIds : SetStore(c)
    \/ \E c \in CallIds : SetClean(c)
    \/ \E qry \in SharedKey : GetRLock(1, qry)
    \/ \E c \in CallIds : GetRead(c)
    \/ \E qry \in SharedKey : ExpireLock(1, qry)
    \/ \E c \in CallIds : ExpireDelete(c)
    \/ AdapterShutdown(1)
    \/ cleanerScan(1)
    \/ cleanerArm(1)
    \/ cleanerTimer(1)
    \/ cleanerSignalled(1)
    \/ Tick

SpecLock == InitAdapter /\ [][NextLock]_vars

\* C38: no access to the store is made without the lock while a writer is
\* inside its critical section: the cleaner is never about to read the size of
\* the store, its lock released, while a Set or an Expire holds the write lock,
\* and a writer never shares the lock with a reader or another writer.
C38_NoUnlockedAccessDuringWrite ==
    \A ad \in AdapterIds :
        /\ ~(adapters[ad].pc = "unlocked" /\ Writers(ad) # {})
        /\ Cardinality(Writers(ad)) <= 1
        /\ Writers(ad) # {} => Readers(ad) = {}

\* A Set holds the write lock and is about to store its result while the
\* cleaner, past its Unlock, is about to read the length of the map.
C38_SizeReadDuringSet ==
    /\ adapters[1].pc = "unlocked"
    /\ \E c \in Writers(1) : calls[c].kind = "Set"

\* The locking the calls themselves do is sound: writers exclude each other
\* and the readers, and two readers can hold the lock together.
C38_CallsExcludeEachOther ==
    \A ad \in AdapterIds :
        /\ Cardinality(Writers(ad)) <= 1
        /\ Writers(ad) # {} => Readers(ad) = {}

C38_ReadersShare == Cardinality(Readers(1)) = 2


\* A Result driven directly: Add, Set, Handled and Done in any order.
NextResult ==
    \/ \E v \in ResultValues : ResultAdd(v)
    \/ \E data \in SeqsUpTo(ResultValues, MaxSetLen), spare \in 0 .. MaxSpare :
           ResultSet(data, spare)
    \/ ResultHandled
    \/ ResultDone

SpecResult == InitAdapter /\ [][NextResult]_vars


\* C39: on a result carrier the stop-propagation flag is never set without the
\* handled flag. Done sets both flags, Handled sets the handled flag and leaves
\* the stop-propagation flag as it was, and no call clears a flag that is set.
C39_StoppedImpliesHandled ==
    /\ [](\A c \in CallIds : propagationStopped(calls[c].res) => calls[c].res.handled = 1)
    /\ [][\A c \in NewCalls :
             LET before == Carrier
                 after == calls'[c].res
             IN  /\ calls'[c].kind = "Done" =>
                        after.handled = 1 /\ after.stopPropagation = 1
                 /\ calls'[c].kind = "Handled" =>
                        after.handled = 1 /\ after.stopPropagation = before.stopPropagation
                 /\ before.handled = 1 => after.handled = 1
                 /\ before.stopPropagation = 1 => after.stopPropagation = 1]_vars

\* Done was called on a new Result and then Handled and Add: both flags are
\* still set after the three calls.
C39_Witness ==
    /\ Len(calls) = 3
    /\ calls[1].kind = "Done" /\ calls[2].kind = "Handled" /\ calls[3].kind = "Add"
    /\ propagationStopped(calls[1].res) /\ calls[1].res.handled = 1
    /\ propagationStopped(calls[3].res) /\ calls[3].res.handled = 1

\* Handled alone: the result is handled and still propagates.
C39_HandledOnly ==
    /\ Len(calls) = 1 /\ calls[1].kind = "Handled"
    /\ calls[1].res.handled = 1 /\ ~propagationStopped(calls[1].res)


\* The same holds of the carriers the bus hands to the handlers, as they are
\* when the call returns.
C39_CarriersOfTheBus ==
    \A c \in CallIds :
        /\ calls[c].res # NoResult =>
               (propagationStopped(calls[c].res) => calls[c].res.handled = 1)
        /\ calls[c].final # NoResult =>
               (propagationStopped(calls[c].final) => calls[c].final.handled = 1)


\* The values a Result must hold after the first n calls of the log: those of
\* the last Set, followed by the values added since, in the order of the calls.
RECURSIVE Expected(_)
Expected(n) ==
    IF n = 0 THEN << >>
    ELSE IF calls[n].kind = "Set" THEN calls[n].arg
    ELSE IF calls[n].kind = "Add" THEN Append(Expected(n - 1), calls[n].arg)
    ELSE Expected(n - 1)

\* C40: after any sequence of Add and Set calls on a Result, All() is the
\* sequence handed to the last Set (the empty sequence when there was none)
\* followed by the values added after it, in call order, and First() is the
\* first of them, or nil when there is none; this holds whatever the capacity
\* of the slice is, a capacity of 0 included, and the values always fit in the
\* capacity.
C40_AllIsSetThenAdds ==
    \A n \in CallIds :
        /\ All(calls[n].res) = Expected(n)
        /\ First(calls[n].res) = IF Expected(n) = << >> THEN "nil" ELSE Expected(n)[1]
        /\ Len(calls[n].res.data) <= calls[n].res.cap

\* Set with an empty slice of capacity 0, then two Adds: the slice grew from
\* capacity 0 and holds the two values in call order.
C40_Witness ==
    /\ Len(calls) = 3
    /\ calls[1].kind = "Set" /\ calls[1].arg = << >> /\ calls[1].res.cap = 0
    /\ First(calls[1].res) = "nil"
    /\ calls[2].kind = "Add" /\ calls[3].kind = "Add"
    /\ All(calls[3].res) = <<calls[2].arg, calls[3].arg>>
    /\ calls[2].arg # calls[3].arg
    /\ First(calls[3].res) = calls[2].arg
    /\ calls[3].res.cap > calls[2].res.cap

\* Three Adds on a new Result: the capacity grew twice, the values are kept.
C40_GrownTwice ==
    /\ Len(calls) = 3
    /\ \A n \in 1 .. 3 : calls[n].kind = "Add"
    /\ calls[1].res.cap < calls[2].res.cap /\ calls[2].res.cap < calls[3].res.cap
    /\ All(calls[3].res) = <<calls[1].arg, calls[2].arg, calls[3].arg>>

\* An Add, then a Set that replaces what was added, then an Add into the spare
\* room of the slice that was set.
C40_SetReplaces ==
    /\ Len(calls) = 3
    /\ calls[1].kind = "Add" /\ calls[1].arg = "a"
    /\ calls[2].kind = "Set" /\ calls[2].arg = <<"b">> /\ calls[2].res.cap = 2
    /\ calls[3].kind = "Add" /\ calls[3].arg = "a"
    /\ All(calls[3].res) = <<"b", "a">> /\ calls[3].res.cap = 2

====
